---- MODULE Spec2Model ----
(***************************************************************************)
(* discogs2xlsx: the rate-limited Discogs session (_DiscogsSession.get),   *)
(* the catalog fetch (Discogs.get_collection / get_wantlist / _get_data)   *)
(* and the hand-over of the result to the writer (main).                   *)
(*                                                                         *)
(* Text is a sequence of one-character strings, so that the conversions of *)
(* the code (title(), upper(), strip(), re.sub, join, number formatting)   *)
(* are computed character by character.  Amounts of money are integers in  *)
(* hundredths; times are integers in seconds.                              *)
(***************************************************************************)
EXTENDS Integers, Sequences, FiniteSets, TLC

(***************************************************************************)
(* Program constants of _DiscogsSession.                                   *)
(***************************************************************************)
API_LIMIT == 100
API_RATELIMIT == 60
API_RATELIMIT_STATUS == 429
API_RATELIMIT_TIME == 60
API_UNAUTHORIZED_STATUS == 401
\* the floor of the throttle sleep and the low-water mark of the counter
SLEEP_FLOOR == 2
LOW_WATER == 2

(***************************************************************************)
(* Bounds of the model.                                                    *)
(***************************************************************************)
\* responses of one run that are out of the ordinary: a 429, a 404, or a
\* low X-Discogs-Ratelimit-Remaining
MaxFaults == 1
\* times the clock advances between two steps of the program in one run
MaxTicks == 1

(***************************************************************************)
(* Text.                                                                   *)
(***************************************************************************)
LowerLetters == <<"a","b","c","d","e","f","g","h","i","j","k","l","m",
                  "n","o","p","q","r","s","t","u","v","w","x","y","z">>
UpperLetters == <<"A","B","C","D","E","F","G","H","I","J","K","L","M",
                  "N","O","P","Q","R","S","T","U","V","W","X","Y","Z">>
Digits == <<"0","1","2","3","4","5","6","7","8","9">>

Range(s) == {s[i] : i \in DOMAIN s}
IndexIn(c, s) == CHOOSE i \in DOMAIN s : s[i] = c

IsLower(c) == c \in Range(LowerLetters)
IsUpper(c) == c \in Range(UpperLetters)
IsCased(c) == IsLower(c) \/ IsUpper(c)
IsDigit(c) == c \in Range(Digits)
IsSpace(c) == c \in {" ", "\t", "\n", "\r"}

UpperChar(c) == IF IsLower(c) THEN UpperLetters[IndexIn(c, LowerLetters)] ELSE c
LowerChar(c) == IF IsUpper(c) THEN LowerLetters[IndexIn(c, UpperLetters)] ELSE c

\* str.upper(), str.lower()
StrUpper(s) == [i \in DOMAIN s |-> UpperChar(s[i])]
StrLower(s) == [i \in DOMAIN s |-> LowerChar(s[i])]

\* str.title(): a cased character is upper-cased when the character before
\* it is not cased, lower-cased otherwise
StrTitle(s) ==
    [i \in DOMAIN s |->
        IF IsCased(s[i])
        THEN IF i > 1 /\ IsCased(s[i - 1]) THEN LowerChar(s[i])
                                           ELSE UpperChar(s[i])
        ELSE s[i]]

\* str.strip()
RECURSIVE LStrip(_)
LStrip(s) == IF s # <<>> /\ IsSpace(Head(s)) THEN LStrip(Tail(s)) ELSE s
RECURSIVE RStrip(_)
RStrip(s) ==
    IF s # <<>> /\ IsSpace(s[Len(s)]) THEN RStrip(SubSeq(s, 1, Len(s) - 1))
                                      ELSE s
Strip(s) == RStrip(LStrip(s))

\* sep.join(parts)
RECURSIVE Join(_, _)
Join(sep, parts) ==
    IF parts = <<>> THEN <<>>
    ELSE IF Len(parts) = 1 THEN parts[1]
    ELSE parts[1] \o sep \o Join(sep, Tail(parts))

\* number of digits at the head of s
RECURSIVE DigitRun(_)
DigitRun(s) == IF s # <<>> /\ IsDigit(Head(s)) THEN 1 + DigitRun(Tail(s)) ELSE 0

\* re.sub(r'\(\d+\)', '', s): every "(", one or more digits, ")" is removed
RECURSIVE SubParenDigits(_)
SubParenDigits(s) ==
    IF s = <<>> THEN <<>>
    ELSE LET n == DigitRun(Tail(s))
         IN  IF /\ Head(s) = "("
                /\ n >= 1
                /\ Len(s) >= n + 2
                /\ s[n + 2] = ")"
             THEN SubParenDigits(SubSeq(s, n + 3, Len(s)))
             ELSE <<Head(s)>> \o SubParenDigits(Tail(s))

\* re.sub(r' \(.*\)', '', s): from the first " (" that has a ")" after it
\* to the last ")" of s (the match is greedy)
HasClose(s, i) == \E j \in DOMAIN s : j >= i + 2 /\ s[j] = ")"
LastClose(s) == CHOOSE j \in DOMAIN s : s[j] = ")" /\ \A k \in DOMAIN s : s[k] = ")" => k <= j
OpensAt(s, i) == i + 1 <= Len(s) /\ s[i] = " " /\ s[i + 1] = "(" /\ HasClose(s, i)
SubParenSuffix(s) ==
    IF \E i \in DOMAIN s : OpensAt(s, i)
    THEN LET i == CHOOSE i \in DOMAIN s :
                      OpensAt(s, i) /\ \A k \in DOMAIN s : OpensAt(s, k) => i <= k
         IN  SubSeq(s, 1, i - 1) \o SubSeq(s, LastClose(s) + 1, Len(s))
    ELSE s

\* str.replace(' ', '_')
SpacesToUnderscores(s) == [i \in DOMAIN s |-> IF s[i] = " " THEN "_" ELSE s[i]]

\* int(text) of a decimal numeral; str(n) of a natural number
RECURSIVE ParseInt(_)
ParseInt(s) ==
    IF s = <<>> THEN 0
    ELSE 10 * ParseInt(SubSeq(s, 1, Len(s) - 1)) + (IndexIn(s[Len(s)], Digits) - 1)
IsNumeral(s) == s # <<>> /\ \A i \in DOMAIN s : IsDigit(s[i])
RECURSIVE IntToStr(_)
IntToStr(n) ==
    IF n < 10 THEN <<Digits[n + 1]>>
    ELSE IntToStr(n \div 10) \o <<Digits[(n % 10) + 1]>>

\* the digits of n in groups of three separated by ","
RECURSIVE Grouped(_)
Grouped(n) ==
    IF n < 1000 THEN IntToStr(n)
    ELSE LET r == n % 1000
         IN  Grouped(n \div 1000) \o <<",">>
                 \o <<Digits[(r \div 100) + 1], Digits[((r \div 10) % 10) + 1],
                      Digits[(r % 10) + 1]>>

\* f'{x:,.2f}' of the amount of c hundredths
Fmt2(c) ==
    Grouped(c \div 100) \o <<".">>
        \o <<Digits[((c % 100) \div 10) + 1], Digits[(c % 10) + 1]>>

(***************************************************************************)
(* The Aggregate: a Python dict of dicts, which keeps insertion order.     *)
(* It is a sequence of [artist, items], items a sequence of [iid, rec];    *)
(* rec is the record of one release, a function from the names of the      *)
(* fields it has to their values.                                          *)
(***************************************************************************)
EmptyRec == [f \in {} |-> 0]

HasArtist(d, a) == \E i \in DOMAIN d : d[i].artist = a
ArtistAt(d, a) == CHOOSE i \in DOMAIN d : d[i].artist = a
HasIid(items, iid) == \E j \in DOMAIN items : items[j].iid = iid
ItemAt(items, iid) == CHOOSE j \in DOMAIN items : items[j].iid = iid
HasItem(d, a, iid) == HasArtist(d, a) /\ HasIid(d[ArtistAt(d, a)].items, iid)
\* data[a][iid]
RecOf(d, a, iid) ==
    LET items == d[ArtistAt(d, a)].items IN items[ItemAt(items, iid)].rec
\* the (artist, instance_id) keys of the Aggregate
Keys(d) ==
    UNION {{<<d[i].artist, d[i].items[j].iid>> : j \in DOMAIN d[i].items} :
               i \in DOMAIN d}

\* data.setdefault(a, {})
SetDefaultArtist(d, a) ==
    IF HasArtist(d, a) THEN d ELSE Append(d, [artist |-> a, items |-> <<>>])

\* data[a].setdefault(iid, {})
SetDefaultItem(d, a, iid) ==
    LET i == ArtistAt(d, a)
    IN  IF HasIid(d[i].items, iid) THEN d
        ELSE [d EXCEPT ![i].items = Append(@, [iid |-> iid, rec |-> EmptyRec])]

\* rec.setdefault(f, v): the first write wins
SetDefaultOverwrite(rec, f, v) ==
    IF f \in DOMAIN rec THEN [rec EXCEPT ![f] = v] ELSE (f :> v) @@ rec
SetDefault(rec, f, v) == IF f \in DOMAIN rec THEN rec ELSE (f :> v) @@ rec

\* data[a][iid].setdefault(f, v)
SetDefaultField(d, a, iid, f, v) ==
    LET i == ArtistAt(d, a)
        j == ItemAt(d[i].items, iid)
    IN  [d EXCEPT ![i].items[j].rec = SetDefault(@, f, v)]

\* a sequence of <<field, value>> written with setdefault, in order
RECURSIVE SetDefaults(_, _, _, _)
SetDefaults(d, a, iid, fvs) ==
    IF fvs = <<>> THEN d
    ELSE SetDefaults(SetDefaultField(d, a, iid, fvs[1][1], fvs[1][2]),
                     a, iid, Tail(fvs))

\* the rows (artist, instance_id, release id) of one artist, in dict order
ArtistRows(e) == [j \in DOMAIN e.items |-> <<e.artist, e.items[j].iid, e.items[j].rec.id>>]
RECURSIVE Flatten(_)
Flatten(ss) == IF ss = <<>> THEN <<>> ELSE Head(ss) \o Flatten(Tail(ss))
\* records = [(b, a, data[b][a]['id']) ...]: artists in insertion order,
\* the instance ids of each artist in insertion order
RecordsReversed(d) ==
    Flatten([i \in DOMAIN d |-> ArtistRows(d[Len(d) + 1 - i])])
Records(d) == Flatten([i \in DOMAIN d |-> ArtistRows(d[i])])
\* data[b][a]['id'] raises KeyError for a record without 'id'
RecordsComputable(d) ==
    \A i \in DOMAIN d : \A j \in DOMAIN d[i].items : "id" \in DOMAIN d[i].items[j].rec

BaseFields ==
    {"album", "year", "id", "format", "quantity", "instance_id", "catno", "styles", "url"}
DetailsFields == {"have", "want", "uri", "notes", "num_for_sale", "lowest_price"}

(***************************************************************************)
(* Folding one page into the Aggregate (the body of the page loop of       *)
(* _get_data).  A JSON object is a record with the set `absent` of the     *)
(* keys it lacks; reading an absent key with [] raises KeyError.           *)
(***************************************************************************)
Has(obj, k) == k \notin obj.absent

\* the artist key: the credited names without "(n)", stripped, joined with
\* " - " and title-cased
ArtistKeyNoSub(rel) ==
    StrTitle(Join(<<" ", "-", " ">>, [i \in DOMAIN rel.artists |-> Strip(rel.artists[i])]))
ArtistKey(rel) ==
    StrTitle(Join(<<" ", "-", " ">>,
                  [i \in DOMAIN rel.artists |-> Strip(SubParenDigits(rel.artists[i]))]))

\* release.get('instance_id', r_id)
InstanceIdAlwaysId(rel) == rel.id
InstanceId(rel) == IF Has(rel, "instance_id") THEN rel.instance_id ELSE rel.id

\* t = [(f['name'].strip().upper(), int(f['qty'])) for f in formats]
FormatPairs(formats) ==
    [i \in DOMAIN formats |->
        [name |-> StrUpper(Strip(formats[i].name)),
         qty  |-> IF IsNumeral(formats[i].qty) THEN ParseInt(formats[i].qty) ELSE 0]]
\* the keys of r_fmt_qty: the distinct names in order of first appearance
RECURSIVE FormatNames(_)
FormatNames(t) ==
    IF t = <<>> THEN <<>>
    ELSE LET init == FormatNames(SubSeq(t, 1, Len(t) - 1))
             n    == t[Len(t)].name
         IN  IF n \in Range(init) THEN init ELSE Append(init, n)
\* r_fmt_qty[k]: the sum of the quantities of the entries named k
FormatSumFirst(t, k) ==
    LET i == CHOOSE i \in DOMAIN t :
                 t[i].name = k /\ \A j \in 1..(i - 1) : t[j].name # k
    IN  t[i].qty
RECURSIVE FormatSum(_, _)
FormatSum(t, k) ==
    IF t = <<>> THEN 0
    ELSE (IF Head(t).name = k THEN Head(t).qty ELSE 0) + FormatSum(Tail(t), k)
FormatSummary(formats) == Join(<<" ", "-", " ">>, FormatNames(FormatPairs(formats)))
QuantitySummary(formats) ==
    LET t  == FormatPairs(formats)
        ks == FormatNames(t)
    IN  Join(<<" ", "-", " ">>, [i \in DOMAIN ks |-> IntToStr(FormatSum(t, ks[i]))])

CatnoSummary(labels) ==
    StrUpper(Join(<<" ", "-", " ">>, [i \in DOMAIN labels |-> Strip(labels[i])]))
StylesSummary(styles) ==
    StrTitle(Join(<<",", " ">>, [i \in DOMAIN styles |-> Strip(styles[i])]))

\* the statement of the loop body at which a raw release raises, 0 if none:
\* 1 r_id, 2 r_artist, 3 r_url, (the record is created,) 4 album, 5 year,
\* (id,) 6 t (format, quantity, instance_id), 7 catno, 8 styles (, url)
ReleaseFailStep(rel) ==
    IF ~Has(rel, "id") THEN 1
    ELSE IF ~Has(rel, "basic_information") \/ ~Has(rel, "artists") THEN 2
    ELSE IF ~Has(rel, "resource_url") THEN 3
    ELSE IF ~Has(rel, "title") THEN 4
    ELSE IF ~Has(rel, "year") THEN 5
    ELSE IF \/ ~Has(rel, "formats")
            \/ \E i \in DOMAIN rel.formats : ~IsNumeral(rel.formats[i].qty) THEN 6
    ELSE IF ~Has(rel, "labels") THEN 7
    ELSE IF ~Has(rel, "styles") THEN 8
    ELSE 0

\* the setdefault calls of the loop body, each with the statement it follows
BaseWrites(rel) ==
    << [after |-> 4, f |-> "album",       v |-> StrTitle(rel.title)],
       [after |-> 5, f |-> "year",        v |-> rel.year],
       [after |-> 5, f |-> "id",          v |-> rel.id],
       [after |-> 6, f |-> "format",      v |-> FormatSummary(rel.formats)],
       [after |-> 6, f |-> "quantity",    v |-> QuantitySummary(rel.formats)],
       [after |-> 6, f |-> "instance_id", v |-> InstanceId(rel)],
       [after |-> 7, f |-> "catno",       v |-> CatnoSummary(rel.labels)],
       [after |-> 8, f |-> "styles",      v |-> StylesSummary(rel.styles)],
       [after |-> 8, f |-> "url",         v |-> rel.resource_url] >>

\* one pass of the loop body over a raw release: the Aggregate it leaves
\* and whether it ran to its end
FoldRelease(d, rel) ==
    LET fs   == ReleaseFailStep(rel)
        a    == ArtistKey(rel)
        iid  == InstanceId(rel)
        Done(w) == fs = 0 \/ w.after < fs
        ws   == SelectSeq(BaseWrites(rel), Done)
        fvs  == [i \in DOMAIN ws |-> <<ws[i].f, ws[i].v>>]
    IN  [data |-> IF fs \in 1..3 THEN d
                  ELSE SetDefaults(SetDefaultItem(SetDefaultArtist(d, a), a, iid),
                                   a, iid, fvs),
         ok   |-> fs = 0]

\* for release in releases: ...; the loop ends at the first release that raises
RECURSIVE FoldPage(_, _)
FoldPage(d, items) ==
    IF items = <<>> THEN [data |-> d, ok |-> TRUE]
    ELSE LET r == FoldRelease(d, Head(items))
         IN  IF r.ok THEN FoldPage(r.data, Tail(items)) ELSE r

\* releases = content.get('releases') or content.get('wants'): an empty
\* 'releases' list is falsy, so 'wants' is read; None is not iterable
ReleasesOf(content) ==
    IF Has(content, "releases") /\ content.releases # <<>>
    THEN [iterable |-> TRUE, items |-> content.releases]
    ELSE IF Has(content, "wants")
    THEN [iterable |-> TRUE, items |-> content.wants]
    ELSE [iterable |-> FALSE, items |-> <<>>]

(***************************************************************************)
(* The enrichment passes.                                                  *)
(***************************************************************************)
\* int(r_details.get('community', {}).get(k, 0))
CommunityCount(body, k) ==
    IF Has(body, "community") /\ Has(body, k) THEN body[k] ELSE 0

\* f'{r_details.get("lowest_price", 0):,.2f}' raises TypeError for null
DetailsFailStep(body) ==
    IF Has(body, "lowest_price") /\ "lowest_price" \in body.null THEN 6 ELSE 0

DetailsWrites(body) ==
    << [after |-> 1, f |-> "have", v |-> CommunityCount(body, "have")],
       [after |-> 2, f |-> "want", v |-> CommunityCount(body, "want")],
       [after |-> 3, f |-> "uri",
        v |-> IF Has(body, "uri") THEN body.uri ELSE <<>>],
       [after |-> 4, f |-> "notes",
        v |-> IF Has(body, "notes") THEN body.notes ELSE <<>>],
       [after |-> 5, f |-> "num_for_sale",
        v |-> IF Has(body, "num_for_sale") THEN body.num_for_sale ELSE 0],
       [after |-> 6, f |-> "lowest_price",
        v |-> Fmt2(IF Has(body, "lowest_price") THEN body.lowest_price ELSE 0)] >>

\* the body of the details loop for the record (a, iid)
FoldDetailsUnderId(d, a, iid, body) ==
    LET fs  == DetailsFailStep(body)
        Done(w) == fs = 0 \/ w.after < fs
        ws  == SelectSeq(DetailsWrites(body), Done)
        fvs == [i \in DOMAIN ws |-> <<ws[i].f, ws[i].v>>]
        id  == RecOf(d, a, iid).id
    IN  [data |-> SetDefaults(SetDefaultItem(d, a, id), a, id, fvs), ok |-> fs = 0]
FoldDetails(d, a, iid, body) ==
    LET fs  == DetailsFailStep(body)
        Done(w) == fs = 0 \/ w.after < fs
        ws  == SelectSeq(DetailsWrites(body), Done)
        fvs == [i \in DOMAIN ws |-> <<ws[i].f, ws[i].v>>]
    IN  [data |-> SetDefaults(d, a, iid, fvs), ok |-> fs = 0]

\* sub(r' \(.*\)', '', key).lower().replace(' ', '_')
PriceKeyKeepsSuffix(label) == SpacesToUnderscores(StrLower(label))
PriceKey(label) == SpacesToUnderscores(StrLower(SubParenSuffix(label)))

\* the dict comprehension over r_prices: a later equal key replaces an
\* earlier one
RECURSIVE PricesMap(_)
PricesMap(entries) ==
    IF entries = <<>> THEN EmptyRec
    ELSE LET e == entries[Len(entries)]
         IN  (PriceKey(e.label) :> Fmt2(e.value))
                 @@ PricesMap(SubSeq(entries, 1, Len(entries) - 1))

\* the body of the prices loop for the record (a, iid); r_prices[key]["value"]
\* raises when an entry of the response is not a mapping with 'value'
FoldPricesSkips(d, a, iid, body) == [data |-> d, ok |-> TRUE]
FoldPrices(d, a, iid, body) ==
    IF body.malformed THEN [data |-> d, ok |-> FALSE]
    ELSE [data |-> SetDefaults(d, a, iid, << <<"prices", PricesMap(body.entries)>> >>),
          ok   |-> TRUE]

(***************************************************************************)
(* Xlsx: the worksheet is a sequence of rows, each the cells written to it *)
(* (column -> value), with the record it was written for.                  *)
(***************************************************************************)
\* the characters of the model in the order of their code points
CodePoints ==
    <<" ", "(", ")", "+", ",", "-", ".", "/">> \o Digits \o UpperLetters \o <<"_">>
        \o LowerLetters
CharLess(c, d) == IndexIn(c, CodePoints) < IndexIn(d, CodePoints)
\* s < t for two str
RECURSIVE StrLess(_, _)
StrLess(s, t) ==
    IF t = <<>> THEN FALSE
    ELSE IF s = <<>> THEN TRUE
    ELSE IF Head(s) = Head(t) THEN StrLess(Tail(s), Tail(t))
    ELSE CharLess(Head(s), Head(t))

\* sorted(data.keys()), each artist with its releases
SortedArtistsUnsorted(d) == d
SortedArtists(d) ==
    LET Rank(i) == 1 + Cardinality({j \in DOMAIN d : StrLess(d[j].artist, d[i].artist)})
    IN  [r \in DOMAIN d |-> d[CHOOSE i \in DOMAIN d : Rank(i) = r]]

\* `for artist in sorted(data.keys()): for release in data[artist].keys()`
WriterOrder(d) ==
    LET sorted == SortedArtists(d)
    IN  Flatten([i \in DOMAIN sorted |->
                    [j \in DOMAIN sorted[i].items |->
                        [artist |-> sorted[i].artist, iid |-> sorted[i].items[j].iid,
                         rec |-> sorted[i].items[j].rec]]])

\* .get(key, None) is truthy: the key is there with a value that is not empty
Truthy(src, f) == f \in DOMAIN src /\ src[f] # <<>>
\* a cell written from src[f]; the read raises KeyError when f is missing
Cell(col, src, f) ==
    [col |-> col, ok |-> f \in DOMAIN src, v |-> IF f \in DOMAIN src THEN src[f] ELSE <<>>]
PriceColumns ==
    << <<12, <<"m", "i", "n", "t">> >>,
       <<13, <<"n", "e", "a", "r", "_", "m", "i", "n", "t">> >>,
       <<14, <<"v", "e", "r", "y", "_", "g", "o", "o", "d", "_", "p", "l", "u", "s">> >>,
       <<15, <<"v", "e", "r", "y", "_", "g", "o", "o", "d">> >>,
       <<16, <<"g", "o", "o", "d", "_", "p", "l", "u", "s">> >>,
       <<17, <<"g", "o", "o", "d">> >> >>
\* the write_* calls of one row, in the order of the code
RowWrites(artist, rec) ==
    << [col |-> 0, ok |-> TRUE, v |-> artist],
       Cell(1, rec, "year"), Cell(3, rec, "catno"), Cell(4, rec, "format"),
       Cell(5, rec, "quantity"), Cell(6, rec, "styles") >>
    \o (IF Truthy(rec, "uri")
        THEN << Cell(2, rec, "album"), Cell(7, rec, "have"), Cell(8, rec, "want"),
                Cell(9, rec, "notes"), Cell(10, rec, "num_for_sale"),
                Cell(11, rec, "lowest_price") >>
             \o (IF "prices" \in DOMAIN rec /\ DOMAIN rec.prices # {}
                 THEN [i \in DOMAIN PriceColumns |->
                          Cell(PriceColumns[i][1], rec.prices, PriceColumns[i][2])]
                 ELSE <<>>)
        ELSE << Cell(2, rec, "album") >>)
\* the cells of the row up to the first read that raises
WriteRow(artist, rec) ==
    LET ws   == RowWrites(artist, rec)
        bad  == {i \in DOMAIN ws : ~ws[i].ok}
        n    == IF bad = {} THEN Len(ws)
                ELSE (CHOOSE i \in bad : \A j \in bad : i <= j) - 1
        At(c) == CHOOSE i \in 1..n : ws[i].col = c
    IN  [cells |-> [c \in {ws[i].col : i \in 1..n} |-> ws[At(c)].v], ok |-> bad = {}]
\* the loop over the records from the row `row` on: it ends at the first
\* record that raises
RECURSIVE WriteRows(_, _)
WriteRows(list, row) ==
    IF list = <<>> THEN [rows |-> <<>>, ok |-> TRUE]
    ELSE LET w    == WriteRow(Head(list).artist, Head(list).rec)
             this == [row |-> row, artist |-> Head(list).artist, iid |-> Head(list).iid,
                      cells |-> w.cells]
         IN  IF ~w.ok THEN [rows |-> <<this>>, ok |-> FALSE]
             ELSE LET rest == WriteRows(Tail(list), row + 1)
                  IN  [rows |-> <<this>> \o rest.rows, ok |-> rest.ok]
\* Xlsx._populate_worksheet: the header is row 0, the records start at row 1
PopulateWorksheet(d) == WriteRows(WriterOrder(d), 1)

(***************************************************************************)
(* What the server holds: raw releases, catalogs, details and prices.      *)
(***************************************************************************)
Vinyl == <<"V", "i", "n", "y", "l">>
Cd == <<"C", "D">>

RawRelease(id, iid, artists, title, year, formats, absent) ==
    [id |-> id, instance_id |-> iid, artists |-> artists, title |-> title,
     year |-> year, formats |-> formats,
     labels |-> << <<"p", "i", "a", "s", " ">>, <<"x", "1">> >>,
     styles |-> << <<"n", "e", "w", " ", "a", "g", "e">>, <<" ", "d", "u", "b">> >>,
     resource_url |-> <<"/", "r", "/">> \o IntToStr(id),
     absent |-> absent]

\* a collection item of artist "Ab (2)", two Vinyl entries and a CD
R1 == RawRelease(1, 11, << <<"a", "b", " ", "(", "2", ")">> >>, <<"d", "i", "o">>, 2018,
                 << [name |-> Vinyl, qty |-> <<"1">>], [name |-> Cd, qty |-> <<"1">>],
                    [name |-> <<" ", "v", "i", "n", "y", "l">>, qty |-> <<"2">>] >>, {})
\* the same (artist, instance_id) delivered again with other values
R1again == RawRelease(4, 11, << <<"A", "B">> >>, <<"o", "t", "h", "e", "r">>, 1999,
                      << [name |-> Cd, qty |-> <<"1">>] >>, {})
\* a wantlist item: no instance_id, two credited artists
R2 == RawRelease(2, 0, << <<"c", "d", " ">>, <<"a", "b">> >>, <<"l", "u", "n", "a", "r">>, 2006,
                 << [name |-> Vinyl, qty |-> <<"1">>] >>, {"instance_id"})
\* a second copy held by the artist of R1
R6 == RawRelease(6, 16, << <<"A", "b">> >>, <<"t", "w", "o">>, 2020,
                 << [name |-> Cd, qty |-> <<"1", "2">>] >>, {})
\* a release whose details carry a null lowest_price and whose price
\* suggestions are not a mapping of grades
R3 == RawRelease(3, 13, << <<"e", "f">> >>, <<"z">>, 2001,
                 << [name |-> Cd, qty |-> <<"1">>] >>, {})
\* a release with details but without price suggestions
R8 == RawRelease(8, 18, << <<"h">> >>, <<"w">>, 1980,
                 << [name |-> Vinyl, qty |-> <<"2">>] >>, {})
\* malformed entries: no 'year'; no 'id'
RNoYear == RawRelease(5, 15, << <<"g">> >>, <<"q">>, 0, <<>>, {"year"})
RNoId == RawRelease(7, 17, << <<"g">> >>, <<"q">>, 2000, <<>>, {"id"})

\* the body of a response that reports an error: {"message": ...}
DetailsKeys == {"community", "have", "want", "uri", "notes", "num_for_sale", "lowest_price"}

\* GET /releases/{id}
DetailsBody(id) ==
    [have |-> 2533 + id, want |-> 323, uri |-> <<"/", "u", "/">> \o IntToStr(id),
     notes |-> <<"n">>, num_for_sale |-> 153, lowest_price |-> 1446 + id,
     null |-> IF id = 3 THEN {"lowest_price"} ELSE {},
     absent |-> IF id = 6 THEN DetailsKeys \ {"have", "want"} ELSE {}]

\* the grades of the price suggestions, as the response labels them
GradeMint == <<"M", "i", "n", "t", " ", "(", "M", ")">>
GradeNearMint == <<"N", "e", "a", "r", " ", "M", "i", "n", "t", " ", "(", "N", "M", " ", "o", "r", " ", "M", "-", ")">>
GradeVeryGoodPlus == <<"V", "e", "r", "y", " ", "G", "o", "o", "d", " ", "P", "l", "u", "s", " ", "(", "V", "G", "+", ")">>
GradeVeryGood == <<"V", "e", "r", "y", " ", "G", "o", "o", "d", " ", "(", "V", "G", ")">>
GradeGoodPlus == <<"G", "o", "o", "d", " ", "P", "l", "u", "s", " ", "(", "G", "+", ")">>
GradeGood == <<"G", "o", "o", "d", " ", "(", "G", ")">>
GradeFair == <<"F", "a", "i", "r", " ", "(", "F", ")">>
GradePoor == <<"P", "o", "o", "r", " ", "(", "P", ")">>

\* GET /marketplace/price_suggestions/{id}
PricesBody(id) ==
    [entries |-> << [label |-> GradeMint, value |-> 2443 + id],
                    [label |-> GradeVeryGoodPlus, value |-> 167100],
                    [label |-> GradeNearMint, value |-> 1671],
                    [label |-> GradeVeryGood, value |-> 1123],
                    [label |-> GradeGoodPlus, value |-> 562],
                    [label |-> GradeGood, value |-> 337],
                    [label |-> GradeFair, value |-> 225],
                    [label |-> GradePoor, value |-> 112] >>,
     malformed |-> id \in {3, 8}]

\* a catalog: what the metadata reports (count, pagination.pages) and the
\* release lists of its pages; `nolist` are the pages whose body has no list
Catalog(count, npages, lists, meta_absent, nolist) ==
    [count |-> count, npages |-> npages, lists |-> lists,
     meta_absent |-> meta_absent, nolist |-> nolist]

Catalogs ==
    << Catalog(0, 0, <<>>, {}, {}),
      Catalog(1, 1, << <<R1>> >>, {}, {}),
      Catalog(101, 2, << <<R1, R2, R6>>, <<R1again, R2>> >>, {}, {}),
      Catalog(101, 2, << <<R6, R1>>, <<R2, RNoYear, R3>> >>, {}, {}),
      Catalog(101, 2, << <<R1, R6>>, <<R3>> >>, {}, {}),
      Catalog(201, 3, << <<R6>>, <<>>, <<R8>> >>, {}, {}),
      Catalog(100, 1, << <<RNoId>> >>, {}, {}),
      Catalog(1, 1, << <<R1>> >>, {"count", "pagination"}, {}),
      Catalog(101, 2, << <<R1>>, <<R6>> >>, {}, {2}),
      Catalog(3, 1, << <<R8, R1, R6>> >>, {}, {}) >>

\* GET /oauth/identity
IdentityBody == [username |-> <<"d", "u", "m", "m", "y">>, absent |-> {}]

\* the body of a response with another status than 200: {"message": ...},
\* read as the body the endpoint would have given
ErrorIdentity == [username |-> <<>>, absent |-> {"username"}]
ErrorInfo == [count |-> 0, absent |-> {"count"}]
ErrorPage ==
    [releases |-> <<>>, wants |-> <<>>, pages |-> 0,
     absent |-> {"releases", "wants", "pagination"}]
ErrorDetails ==
    [have |-> 0, want |-> 0, uri |-> <<>>, notes |-> <<>>, num_for_sale |-> 0,
     lowest_price |-> 0, null |-> {}, absent |-> DetailsKeys]
ErrorPrices == [entries |-> <<>>, malformed |-> TRUE]

\* GET /users/{username}/collection/folders/0
CollectionInfo(c) == [count |-> c.count, absent |-> c.meta_absent]

\* page n of the catalog: the list is under 'wants' or under 'releases';
\* a page past the last one is empty
PageBody(c, wantlist, n) ==
    LET items == IF n \in DOMAIN c.lists THEN c.lists[n] ELSE <<>>
        key   == IF wantlist THEN "wants" ELSE "releases"
    IN  [releases |-> IF wantlist THEN <<>> ELSE items,
         wants    |-> IF wantlist THEN items ELSE <<>>,
         pages    |-> c.npages,
         absent   |-> ({"releases", "wants"} \ {key})
                         \cup (IF n \in c.nolist THEN {key} ELSE {})
                         \cup (c.meta_absent \cap {"pagination"})]

(***************************************************************************)
(* The state of one run of main.                                           *)
(***************************************************************************)
VARIABLES
    pc,                    \* where the run is: "identity" (Discogs.__init__),
                           \* "meta" (get_collection / get_wantlist before
                           \* _get_data), "page", "details", "prices" (the
                           \* loops of _get_data), "save" (main holds the
                           \* result), "done" (the writer was called), "closed"
                           \* (the workbook was written and closed), "keyerror"
                           \* (the writer raised KeyError), "exit"
                           \* (sys.exit(1)), "crash" (uncaught exception of
                           \* the fetch)
    opts,                  \* the options: wantlist, details, prices
    cat,                   \* the catalog the server holds (its place in Catalogs)
    budget,                \* how many faulty responses and clock ticks the run may
                           \* see, and whether responses carry other header values
    used,                  \* how many it has seen
    clock,                 \* time()
    api_last_block_time,   \* _DiscogsSession._api_last_block_time
    remaining_queries,     \* _DiscogsSession._remaining_queries
    depth,                 \* recursion depth of the get in progress
    requests,              \* the HTTP requests sent so far: endpoint, page or
                           \* release id, the record the loop is at, the depth,
                           \* the time sent, the sleep before it, the status
                           \* of the answer (0: the transport raised)
    response,              \* <<the answer to the last request>>: raised, status
                           \* and the X-Discogs-Ratelimit-Remaining header
    username,              \* Discogs._username
    data,                  \* the Aggregate of _get_data
    pages,                 \* the page count given to _get_data
    page,                  \* the loop variable of the page loop
    records,               \* the list `records` of _get_data
    idx,                   \* position of the enrichment loop in records
    result,                \* <<mapping>> once get_collection / get_wantlist returned
    saved,                 \* <<mapping>> once the writer was handed it
    errors,                \* the messages given to logger.error
    hist,                  \* history: the Aggregate when the current page was
                           \* requested and when the page loop ended, and
                           \* where an exception was raised
    sheet,                 \* the rows the writer has written to the worksheet
    delivered,             \* the list `releases` handed to the body of the
                           \* page loop when the loop body is run on its own
    argv,                  \* the command line and the environment main is run
                           \* with (<<>> where main is taken as past its options)
    options,               \* <<Options.all>> once the command line is parsed
    calls                  \* the calls main has made on Discogs, in order

vars == <<pc, opts, cat, budget, used, clock, api_last_block_time,
          remaining_queries, depth, requests, username, data, pages, page,
          records, idx, result, saved, errors, hist, delivered, sheet, response,
          argv, options, calls>>

front == <<argv, options, calls>>

session == <<clock, api_last_block_time, remaining_queries, depth, requests, used, response>>

Max(a, b) == IF a >= b THEN a ELSE b

(***************************************************************************)
(* _DiscogsSession.get                                                     *)
(***************************************************************************)
\* if self._remaining_queries < 2
ThrottledNever(remaining) == FALSE
ThrottledAlways(remaining) == TRUE
Throttled(remaining) == remaining < LOW_WATER

\* max(2, self.API_RATELIMIT_TIME - (now - self._api_last_block_time))
SleepTimeFloorOnly(now, last) == SLEEP_FLOOR
SleepTime(now, last) == Max(SLEEP_FLOOR, API_RATELIMIT_TIME - (now - last))

\* int(headers.get('X-Discogs-Ratelimit-Remaining', self.API_RATELIMIT))
HeaderRemaining(resp) ==
    IF resp.header.present THEN ParseInt(resp.header.text) ELSE API_RATELIMIT

\* self._remaining_queries after the response
RemainingAfterHeaderOnly(resp) == HeaderRemaining(resp)
RemainingAfter(resp) ==
    IF resp.status = API_RATELIMIT_STATUS THEN 0 ELSE HeaderRemaining(resp)

\* what get does with the response: raises what the transport raised,
\* raises DiscogsException, calls itself again, or returns the body
OutcomeSurfaces429(resp) ==
    IF resp.raised \/ resp.status = API_RATELIMIT_STATUS THEN "error"
    ELSE IF resp.status = API_UNAUTHORIZED_STATUS THEN "unauthorized"
    ELSE "body"
OutcomeRetry401(resp) ==
    IF resp.raised THEN "error"
    ELSE IF resp.status \in {API_RATELIMIT_STATUS, API_UNAUTHORIZED_STATUS} THEN "retry"
    ELSE "body"
Outcome(resp) ==
    IF resp.raised THEN "error"
    ELSE IF resp.status = API_UNAUTHORIZED_STATUS THEN "unauthorized"
    ELSE IF resp.status = API_RATELIMIT_STATUS THEN "retry"
    ELSE "body"

NoHeader == [present |-> FALSE, text |-> <<>>]
LowHeader == [present |-> TRUE, text |-> <<"1">>]
HighHeader == [present |-> TRUE, text |-> <<"4", "0">>]

\* what the transport can give to one request: an exception, or a response
\* with a status and possibly the rate-limit header
Responses ==
    {[raised |-> TRUE, status |-> 0, header |-> NoHeader]} \cup
    {[raised |-> FALSE, status |-> st, header |-> h] :
        st \in {200, 404, API_UNAUTHORIZED_STATUS, API_RATELIMIT_STATUS},
        h \in {NoHeader, LowHeader, HighHeader}}

IsLow(resp) == ~resp.raised /\ resp.header = LowHeader
IsHigh(resp) == ~resp.raised /\ resp.header = HighHeader
\* loads(response.content)
Body(resp, normal, error) == IF resp.status = 200 THEN normal ELSE error
Is429(resp) == ~resp.raised /\ resp.status = API_RATELIMIT_STATUS
IsFault(resp) == Is429(resp) \/ IsLow(resp) \/ (~resp.raised /\ resp.status = 404)
Allowed(resp) ==
    /\ IsFault(resp) => used.faults < budget.faults
    /\ IsHigh(resp) => budget.high

\* one pass through the body of get for the request (ep, arg), answered
\* by resp: the throttle, the request, the counter
HttpGet(ep, arg, key, resp) ==
    LET now == clock
        thr == Throttled(remaining_queries)
        d   == IF thr THEN SleepTime(now, api_last_block_time) ELSE 0
    IN  /\ Allowed(resp)
        /\ clock' = now + d
        /\ api_last_block_time' = IF thr THEN now ELSE api_last_block_time
        /\ requests' = Append(requests,
                              [ep |-> ep, arg |-> arg, key |-> key,
                               attempt |-> depth, sent |-> now + d, slept |-> d,
                               status |-> resp.status])
        /\ response' = <<resp>>
        /\ remaining_queries' =
               IF resp.raised THEN remaining_queries ELSE RemainingAfter(resp)
        /\ depth' = IF Outcome(resp) = "retry" THEN depth + 1 ELSE 0
        /\ used' = [used EXCEPT !.faults = @ + (IF IsFault(resp) THEN 1 ELSE 0)]

(***************************************************************************)
(* Discogs                                                                 *)
(***************************************************************************)
InvalidKey == "Invalid Discogs key."
FetchFailed == "Fetching Discogs collection failled."
UnableToGet == "Unable to get Discogs data."

\* pages = -(-albums // _DiscogsSession.API_LIMIT) + 1
CollectionPagesNoExtra(albums) == -((-albums) \div API_LIMIT)
CollectionPages(albums) == -((-albums) \div API_LIMIT) + 1

\* pages = int(wantlist_info['pagination'].get('pages', 0)) + 1
WantlistPagesNoExtra(reported) == reported
WantlistPages(reported) == reported + 1

\* range(1, pages)
PageRangeInclusive(n) == 1..n
PageRange(n) == 1..(n - 1)

\* {'username': self._username, 'collection' | 'wantlist': aggregate}
Wrap(d) ==
    [username |-> username,
     key |-> IF opts.wantlist THEN "wantlist" ELSE "collection",
     aggregate |-> d]

\* _get_data returns d, and get_collection / get_wantlist return the mapping
Return(d) ==
    /\ data' = d
    /\ result' = <<Wrap(d)>>
    /\ pc' = "save"

\* an except clause of _get_data or of get_collection / get_wantlist
CaughtDiscards(d, msg, phase, n, src) ==
    /\ Return(<<>>)
    /\ errors' = Append(errors, msg)
    /\ hist' = [hist EXCEPT !.fail = [phase |-> phase, n |-> n, src |-> src]]
    /\ UNCHANGED <<username, pages, page, records, idx, saved>>
CaughtRaises(d, msg, phase, n, src) ==
    /\ pc' = "crash"
    /\ data' = d
    /\ errors' = Append(errors, msg)
    /\ hist' = [hist EXCEPT !.fail = [phase |-> phase, n |-> n, src |-> src]]
    /\ UNCHANGED <<username, pages, page, records, idx, saved, result>>
CaughtSilent(d, msg, phase, n, src) ==
    /\ Return(d)
    /\ hist' = [hist EXCEPT !.fail = [phase |-> phase, n |-> n, src |-> src]]
    /\ UNCHANGED <<username, pages, page, records, idx, saved, errors>>
Caught(d, msg, phase, n, src) ==
    /\ Return(d)
    /\ errors' = Append(errors, msg)
    /\ hist' = [hist EXCEPT !.fail = [phase |-> phase, n |-> n, src |-> src]]
    /\ UNCHANGED <<username, pages, page, records, idx, saved>>

\* which loop follows the details loop, and which follows the page loop
AfterDetailsAlwaysPrices(recs) == IF recs # <<>> THEN "prices" ELSE "save"
AfterDetails(recs) == IF opts.prices /\ recs # <<>> THEN "prices" ELSE "save"
AfterPagesPricesFirst(recs) ==
    IF opts.prices /\ recs # <<>> THEN "prices"
    ELSE IF opts.details /\ recs # <<>> THEN "details"
    ELSE "save"
AfterPages(recs) ==
    IF opts.details /\ recs # <<>> THEN "details" ELSE AfterDetails(recs)

\* the page loop has ended with the Aggregate d: the list `records` is
\* built when an enrichment is wanted, and the first enrichment loop begins
EndOfPages(d) ==
    LET wanted == opts.details \/ opts.prices
        recs   == IF wanted THEN Records(d) ELSE <<>>
        next   == AfterPages(recs)
    IN  /\ data' = d
        /\ records' = recs
        /\ idx' = IF next = "save" THEN 0 ELSE 1
        /\ pc' = next
        /\ result' = IF next = "save" THEN <<Wrap(d)>> ELSE result
        /\ hist' = [hist EXCEPT !.pagesEnd = d, !.pageStart = d]
        /\ UNCHANGED <<errors, saved>>

\* _get_data is entered with the page count n
EnterGetData(n) ==
    /\ pages' = n
    /\ IF 1 \in PageRange(n)
       THEN /\ pc' = "page"
            /\ page' = 1
            /\ UNCHANGED <<data, records, idx, result, errors, saved, hist>>
       ELSE /\ page' = 0
            /\ EndOfPages(<<>>)

(***************************************************************************)
(* The steps of the run: one per request the program makes.                *)
(***************************************************************************)
fetch == <<username, data, pages, page, records, idx, result, saved, errors, hist>>

\* Discogs.__init__: the identity probe.  Only DiscogsException is caught.
Identity ==
    /\ pc = "identity"
    /\ \E resp \in Responses :
        /\ HttpGet("identity", 0, <<>>, resp)
        /\ \/ /\ Outcome(resp) = "retry"
              /\ UNCHANGED <<pc, fetch>>
           \/ /\ Outcome(resp) = "unauthorized"
              /\ errors' = Append(errors, InvalidKey)
              /\ pc' = "exit"
              /\ hist' = [hist EXCEPT !.fail = [phase |-> "identity", n |-> 0, src |-> "auth"]]
              /\ UNCHANGED <<username, data, pages, page, records, idx, result, saved>>
           \/ /\ Outcome(resp) = "error"
              /\ pc' = "crash"
              /\ hist' = [hist EXCEPT !.fail = [phase |-> "identity", n |-> 0, src |-> "transport"]]
              /\ UNCHANGED <<username, data, pages, page, records, idx, result, saved, errors>>
           \/ /\ Outcome(resp) = "body"
              /\ LET identity == Body(resp, IdentityBody, ErrorIdentity)
                 IN  IF Has(identity, "username")
                     THEN /\ username' = identity.username
                          /\ pc' = "meta"
                          /\ UNCHANGED hist
                     ELSE /\ pc' = "crash"
                          /\ hist' = [hist EXCEPT !.fail = [phase |-> "identity", n |-> 0, src |-> "body"]]
                          /\ UNCHANGED username
              /\ UNCHANGED <<data, pages, page, records, idx, result, saved, errors>>
    /\ UNCHANGED <<opts, cat, budget, delivered, sheet, front>>

\* get_collection / get_wantlist up to the call of _get_data: the metadata
\* request and the page count
Metadata ==
    /\ pc = "meta"
    /\ \E resp \in Responses :
        /\ HttpGet("meta", IF opts.wantlist THEN 0 ELSE 1, <<>>, resp)
        /\ \/ /\ Outcome(resp) = "retry"
              /\ UNCHANGED <<pc, fetch>>
           \/ /\ Outcome(resp) = "unauthorized"
              /\ Caught(<<>>, FetchFailed, "meta", 0, "auth")
           \/ /\ Outcome(resp) = "error"
              /\ Caught(<<>>, UnableToGet, "meta", 0, "transport")
           \/ /\ Outcome(resp) = "body"
              /\ opts.wantlist
              /\ LET info == Body(resp, PageBody(Catalogs[cat], TRUE, 1), ErrorPage)
                 IN  IF Has(info, "pagination")
                     THEN /\ EnterGetData(WantlistPages(info.pages))
                          /\ UNCHANGED username
                     ELSE Caught(<<>>, UnableToGet, "meta", 0, "body")
           \/ /\ Outcome(resp) = "body"
              /\ ~opts.wantlist
              /\ LET info   == Body(resp, CollectionInfo(Catalogs[cat]), ErrorInfo)
                     albums == IF Has(info, "count") THEN info.count ELSE 0
                 IN  EnterGetData(CollectionPages(albums))
              /\ UNCHANGED username
    /\ UNCHANGED <<opts, cat, budget, delivered, sheet, front>>

\* one iteration of the page loop of _get_data
FetchPage ==
    /\ pc = "page"
    /\ \E resp \in Responses :
        /\ HttpGet("page", page, <<>>, resp)
        /\ \/ /\ Outcome(resp) = "retry"
              /\ UNCHANGED <<pc, fetch>>
           \/ /\ Outcome(resp) = "unauthorized"
              /\ Caught(data, FetchFailed, "page", page, "auth")
           \/ /\ Outcome(resp) = "error"
              /\ Caught(data, UnableToGet, "page", page, "transport")
           \/ /\ Outcome(resp) = "body"
              /\ LET content  == Body(resp, PageBody(Catalogs[cat], opts.wantlist, page),
                                      ErrorPage)
                     releases == ReleasesOf(content)
                     folded   == FoldPage(data, releases.items)
                 IN  IF ~releases.iterable
                     THEN Caught(data, UnableToGet, "page", page, "body")
                     ELSE IF ~folded.ok
                     THEN Caught(folded.data, UnableToGet, "page", page, "body")
                     ELSE IF page + 1 \in PageRange(pages)
                     THEN /\ data' = folded.data
                          /\ page' = page + 1
                          /\ hist' = [hist EXCEPT !.pageStart = folded.data]
                          /\ UNCHANGED <<pc, username, pages, records, idx,
                                         result, saved, errors>>
                     ELSE /\ EndOfPages(folded.data)
                          /\ UNCHANGED <<username, pages, page>>
    /\ UNCHANGED <<opts, cat, budget, delivered, sheet, front>>

\* one iteration of the details loop of _get_data
FetchDetails ==
    /\ pc = "details"
    /\ \E resp \in Responses :
        /\ HttpGet("details", records[idx][3], <<records[idx][1], records[idx][2]>>, resp)
        /\ \/ /\ Outcome(resp) = "retry"
              /\ UNCHANGED <<pc, fetch>>
           \/ /\ Outcome(resp) = "unauthorized"
              /\ Caught(data, FetchFailed, "details", idx, "auth")
           \/ /\ Outcome(resp) = "error"
              /\ Caught(data, UnableToGet, "details", idx, "transport")
           \/ /\ Outcome(resp) = "body"
              /\ LET r      == records[idx]
                     folded == FoldDetails(data, r[1], r[2],
                                           Body(resp, DetailsBody(r[3]), ErrorDetails))
                 IN  IF ~folded.ok
                     THEN Caught(folded.data, UnableToGet, "details", idx, "body")
                     ELSE /\ data' = folded.data
                          /\ IF idx < Len(records)
                             THEN /\ idx' = idx + 1
                                  /\ UNCHANGED <<pc, result>>
                             ELSE /\ pc' = AfterDetails(records)
                                  /\ idx' = IF AfterDetails(records) = "save" THEN 0 ELSE 1
                                  /\ result' = IF AfterDetails(records) = "save"
                                               THEN <<Wrap(folded.data)>> ELSE result
                          /\ UNCHANGED <<username, pages, page, records, saved,
                                         errors, hist>>
    /\ UNCHANGED <<opts, cat, budget, delivered, sheet, front>>

\* one iteration of the prices loop of _get_data
FetchPrices ==
    /\ pc = "prices"
    /\ \E resp \in Responses :
        /\ HttpGet("prices", records[idx][3], <<records[idx][1], records[idx][2]>>, resp)
        /\ \/ /\ Outcome(resp) = "retry"
              /\ UNCHANGED <<pc, fetch>>
           \/ /\ Outcome(resp) = "unauthorized"
              /\ Caught(data, FetchFailed, "prices", idx, "auth")
           \/ /\ Outcome(resp) = "error"
              /\ Caught(data, UnableToGet, "prices", idx, "transport")
           \/ /\ Outcome(resp) = "body"
              /\ LET r      == records[idx]
                     folded == FoldPrices(data, r[1], r[2],
                                          Body(resp, PricesBody(r[3]), ErrorPrices))
                 IN  IF ~folded.ok
                     THEN Caught(folded.data, UnableToGet, "prices", idx, "body")
                     ELSE /\ data' = folded.data
                          /\ IF idx < Len(records)
                             THEN /\ idx' = idx + 1
                                  /\ UNCHANGED <<pc, result>>
                             ELSE /\ pc' = "save"
                                  /\ idx' = 0
                                  /\ result' = <<Wrap(folded.data)>>
                          /\ UNCHANGED <<username, pages, page, records, saved,
                                         errors, hist>>
    /\ UNCHANGED <<opts, cat, budget, delivered, sheet, front>>

\* main: xlsx.save_wantlist(wantlist=...) / xlsx.save_collection(collection=...)
Save ==
    /\ pc = "save"
    /\ saved' = result
    /\ pc' = "done"
    /\ UNCHANGED <<opts, cat, budget, delivered, sheet, front, session, username, data, pages, page,
                   records, idx, result, errors, hist>>

\* Xlsx.save_collection / save_wantlist: the worksheet is populated from the
\* mapping handed over and the workbook is closed; a KeyError raised by the
\* writer is caught nowhere
WriteWorkbook ==
    /\ pc = "done"
    /\ LET w == PopulateWorksheet(saved[1].aggregate)
       IN  /\ sheet' = w.rows
           /\ pc' = IF w.ok THEN "closed" ELSE "keyerror"
    /\ UNCHANGED <<opts, cat, budget, delivered, front, session, username, data, pages,
                   page, records, idx, result, saved, errors, hist>>

\* time passes between two steps of the program
TickSteps == {1, 40, 59}
Tick ==
    /\ pc \in {"identity", "meta", "page", "details", "prices"}
    /\ used.ticks < budget.ticks
    /\ \E d \in TickSteps : clock' = clock + d
    /\ used' = [used EXCEPT !.ticks = @ + 1]
    /\ UNCHANGED <<pc, opts, cat, budget, delivered, sheet, front, api_last_block_time,
                   remaining_queries, depth, requests, response, fetch>>

(***************************************************************************)
(* The specifications.                                                     *)
(***************************************************************************)
\* hist.fail: the request (phase, page or position) at which an exception
\* was raised and what raised it: "auth" (get, on a 401), "transport"
\* (the transport, through get) or "body" (the caller, reading the body)
NoFail == [phase |-> "none", n |-> 0, src |-> "none"]

\* main has built the session (the counter at the ceiling, the timestamp
\* at the time of construction) and is about to probe the identity
Start ==
    /\ pc = "identity"
    /\ clock = 100
    /\ api_last_block_time = clock
    /\ remaining_queries = API_RATELIMIT
    /\ depth = 0
    /\ requests = <<>>
    /\ response = <<>>
    /\ argv = <<>>
    /\ options = <<>>
    /\ calls = <<>>
    /\ username = <<>>
    /\ data = <<>>
    /\ pages = 0
    /\ page = 0
    /\ records = <<>>
    /\ idx = 0
    /\ result = <<>>
    /\ saved = <<>>
    /\ errors = <<>>
    /\ hist = [pageStart |-> <<>>, pagesEnd |-> <<>>, fail |-> NoFail]
    /\ used = [faults |-> 0, ticks |-> 0]

\* every catalog and every combination of options; the clock moves only
\* by the sleeps of the session
Init ==
    /\ Start
    /\ opts \in [wantlist : BOOLEAN, details : BOOLEAN, prices : BOOLEAN]
    /\ cat \in DOMAIN Catalogs
    /\ budget = [faults |-> MaxFaults, ticks |-> 0, high |-> FALSE]
    /\ delivered = <<>>
    /\ sheet = <<>>

Next ==
    \/ Identity
    \/ Metadata
    \/ FetchPage
    \/ FetchDetails
    \/ FetchPrices
    \/ Save
    \/ WriteWorkbook

Spec == Init /\ [][Next]_vars

\* one wantlist of one release fetched without enrichment, under every timing
InitClock ==
    /\ Start
    /\ opts = [wantlist |-> TRUE, details |-> FALSE, prices |-> FALSE]
    /\ cat = 2
    /\ budget = [faults |-> MaxFaults + 1, ticks |-> MaxTicks, high |-> TRUE]
    /\ delivered = <<>>
    /\ sheet = <<>>

NextClock ==
    \/ Identity
    \/ Metadata
    \/ FetchPage
    \/ Save
    \/ Tick

SpecClock == InitClock /\ [][NextClock]_vars

(***************************************************************************)
(* main up to the construction of the client: the command line is parsed   *)
(* by Options and main reads the options it needs.                         *)
(***************************************************************************)
DEFAULT_FILE_COLLECTION == "discogs-collection.xlsx"
DEFAULT_FILE_WANTLIST == "discogs-wantlist.xlsx"

\* the command lines: which flags are given, --token not given, given bare
\* or given with a value, --file given or not, and DISCOGS_TOKEN set or not
CommandLines ==
    [wantlist : BOOLEAN, details : BOOLEAN, prices : BOOLEAN, quiet : BOOLEAN,
     debug : BOOLEAN, token : {"absent", "bare", "dummy"}, file : {"absent", "out.xlsx"},
     env : {"unset", "envtoken"}]

\* parse_args exits with status 2: --debug and --quiet are mutually
\* exclusive, and --token is required unless DISCOGS_TOKEN gives its default
Rejected(line) ==
    \/ line.debug /\ line.quiet
    \/ line.token = "absent" /\ line.env = "unset"

\* vars(parser.parse_args()): one key per option, named after its long form
Parsed(line) ==
    [currency |-> "EUR",
     debug    |-> line.debug,
     details  |-> line.details,
     file     |-> IF line.file # "absent" THEN line.file
                  ELSE IF line.wantlist THEN DEFAULT_FILE_WANTLIST
                  ELSE DEFAULT_FILE_COLLECTION,
     prices   |-> line.prices,
     quiet    |-> line.quiet,
     token    |-> CASE line.token = "dummy" -> "dummy"
                    [] line.token = "bare"  -> "None"
                    [] OTHER                -> line.env,
     wantlist |-> line.wantlist]

\* options = Options(name=__project__, version=__version__)
ParseArgs ==
    /\ pc = "argv"
    /\ IF Rejected(argv)
       THEN pc' = "exit" /\ UNCHANGED options
       ELSE pc' = "main" /\ options' = <<Parsed(argv)>>
    /\ UNCHANGED <<opts, cat, budget, delivered, sheet, argv, calls, session, fetch>>

\* the keys main reads from options.all, by subscript, before it has built
\* the client
KeysReadFirst == <<"quiet", "debug", "apikey", "currency">>

\* main from the Logger to Discogs(...): a key that options.all lacks raises
\* KeyError, which nothing catches; with the client built, the options
\* wantlist, details and prices decide the fetch and the save that follow
MainBuildsClient ==
    /\ pc = "main"
    /\ LET o == options[1]
       IN  IF \E i \in DOMAIN KeysReadFirst : KeysReadFirst[i] \notin DOMAIN o
           THEN /\ pc' = "crash"
                /\ UNCHANGED <<opts, calls>>
           ELSE /\ pc' = "identity"
                /\ calls' = Append(calls, [fn |-> "Discogs", token |-> o["apikey"],
                                           currency |-> o["currency"]])
                /\ opts' = [wantlist |-> o["wantlist"], details |-> o["details"],
                            prices |-> o["prices"]]
    /\ UNCHANGED <<cat, budget, delivered, sheet, argv, options, session, fetch>>

InitMain ==
    /\ pc = "argv"
    /\ argv \in CommandLines
    /\ options = <<>>
    /\ calls = <<>>
    /\ opts = [wantlist |-> FALSE, details |-> FALSE, prices |-> FALSE]
    /\ cat = 1
    /\ budget = [faults |-> 0, ticks |-> 0, high |-> FALSE]
    /\ used = [faults |-> 0, ticks |-> 0]
    /\ clock = 100
    /\ api_last_block_time = clock
    /\ remaining_queries = API_RATELIMIT
    /\ depth = 0
    /\ requests = <<>>
    /\ response = <<>>
    /\ username = <<>>
    /\ data = <<>>
    /\ pages = 0
    /\ page = 0
    /\ records = <<>>
    /\ idx = 0
    /\ result = <<>>
    /\ saved = <<>>
    /\ errors = <<>>
    /\ hist = [pageStart |-> <<>>, pagesEnd |-> <<>>, fail |-> NoFail]
    /\ delivered = <<>>
    /\ sheet = <<>>

NextMain ==
    \/ ParseArgs
    \/ MainBuildsClient

SpecMain == InitMain /\ [][NextMain]_vars

\* a server that answers 429 again and again: one collection of one release
\* fetched without enrichment, with up to MaxFlood faulty responses
MaxFlood == 6

InitFlood ==
    /\ Start
    /\ opts = [wantlist |-> FALSE, details |-> FALSE, prices |-> FALSE]
    /\ cat = 2
    /\ budget = [faults |-> MaxFlood, ticks |-> 0, high |-> FALSE]
    /\ delivered = <<>>
    /\ sheet = <<>>

NextFlood ==
    \/ Identity
    \/ Metadata
    \/ FetchPage
    \/ Save

SpecFlood == InitFlood /\ [][NextFlood]_vars

(***************************************************************************)
(* The body of the page loop on its own: lists of raw releases are folded  *)
(* into the Aggregate one after the other, the same list possibly again.   *)
(***************************************************************************)
MaxFormats == 3
MaxFolds == 2
MaxArtists == 2

\* entries of basic_information.formats
FormatEntries ==
    { [name |-> Vinyl, qty |-> <<"1">>],
      [name |-> Vinyl, qty |-> <<"2">>],
      [name |-> <<" ", "c", "d">>, qty |-> <<"1", "2">>],
      [name |-> Cd, qty |-> <<"1">>] }
FormatLists == UNION {[1..n -> FormatEntries] : n \in 0..MaxFormats}
FormatRelease(formats) ==
    RawRelease(9, 19, << <<"k">> >>, <<"t">>, 2000, formats, {})
\* a release on its own, its formats any list of entries
FormatPages == {<<FormatRelease(fs)>> : fs \in FormatLists}
\* credited names: with "(n)" at the end, in the middle and at the head,
\* with spaces around, with a parenthesis that holds no number
ArtistNames ==
    { <<"a", "b", " ", "(", "2", ")">>,
      <<"a", "b">>,
      <<" ", "A", "b", "(", "1", "2", ")", " ">>,
      <<"a", "(", "b", ")">>,
      <<"(", "3", ")", "a", " ", "b", " ", "(", "2", ")">> }
ArtistLists == UNION {[1..n -> ArtistNames] : n \in 1..MaxArtists}
ArtistRelease(artists) == RawRelease(10, 20, artists, <<"t">>, 2000, <<>>, {})
\* a release on its own, its artists any list of credited names
ArtistPages == {<<ArtistRelease(as)>> : as \in ArtistLists}
\* lists with a release repeated, with two releases of one key, with a
\* release that raises, with none
FoldPages ==
    << <<R1>>, <<R1, R1again>>, <<R1again, R1>>, <<R2, R2>>, <<R6, RNoYear, R3>>,
       <<R1, R2, R1>>, <<RNoId>>, <<>> >>

InitFold ==
    /\ pc = "fold"
    /\ delivered \in FormatPages \cup ArtistPages \cup Range(FoldPages)
    /\ opts = [wantlist |-> FALSE, details |-> FALSE, prices |-> FALSE]
    /\ cat = 1
    /\ budget = [faults |-> 0, ticks |-> 0, high |-> FALSE]
    /\ used = [faults |-> 0, ticks |-> 0]
    /\ clock = 100
    /\ api_last_block_time = clock
    /\ remaining_queries = API_RATELIMIT
    /\ depth = 0
    /\ requests = <<>>
    /\ response = <<>>
    /\ argv = <<>>
    /\ options = <<>>
    /\ calls = <<>>
    /\ username = <<>>
    /\ data = <<>>
    /\ pages = 0
    /\ page = 0
    /\ records = <<>>
    /\ idx = 0
    /\ result = <<>>
    /\ saved = <<>>
    /\ errors = <<>>
    /\ hist = [pageStart |-> <<>>, pagesEnd |-> <<>>, fail |-> NoFail]
    /\ sheet = <<>>

\* `for release in releases:` over the list delivered; page counts the runs
\* of the loop and idx the runs over this list
FoldDelivered ==
    /\ pc = "fold"
    /\ page < MaxFolds
    /\ data' = FoldPage(data, delivered).data
    /\ page' = page + 1
    /\ idx' = idx + 1
    /\ hist' = [hist EXCEPT !.pageStart = data]
    /\ UNCHANGED <<pc, opts, cat, budget, delivered, sheet, front, session, username, pages,
                   records, result, saved, errors>>

\* another list is delivered
Deliver ==
    /\ pc = "fold"
    /\ page < MaxFolds
    /\ idx >= 1
    /\ \E i \in DOMAIN FoldPages :
           /\ FoldPages[i] # delivered
           /\ delivered' = FoldPages[i]
    /\ idx' = 0
    /\ UNCHANGED <<pc, opts, cat, budget, sheet, front, session, username, data, pages, page,
                   records, result, saved, errors, hist>>

NextFold ==
    \/ FoldDelivered
    \/ Deliver

SpecFold == InitFold /\ [][NextFold]_vars

(***************************************************************************)
(* Properties.                                                             *)
(***************************************************************************)
Last(q) == q[Len(q)]
Returned == pc \in {"save", "done", "closed", "keyerror"}
Sent == Len(requests') = Len(requests) + 1
\* the requests of an endpoint as first issued (not the re-issues after 429)
IsFirstIssue(e) == e.attempt = 0
FirstIssues == SelectSeq(requests, IsFirstIssue)
IsPage(e) == e.ep = "page"
IsDetails(e) == e.ep = "details"
IsPrices(e) == e.ep = "prices"
PagesAsked == LET q == SelectSeq(FirstIssues, IsPage) IN [i \in DOMAIN q |-> q[i].arg]
UpTo(n) == [i \in 1..n |-> i]

\* C1: a call of get entered with the counter below 2 sleeps before its
\* request, and the request is sent no earlier than 60 seconds after the
\* last-exhaustion timestamp the call found stored.
C1_ThrottledRequestWaits ==
    [][(Sent /\ remaining_queries < 2) =>
           /\ Last(requests').slept > 0
           /\ Last(requests').sent = clock + Last(requests').slept
           /\ Last(requests').sent >= api_last_block_time + 60]_vars

\* a throttled request whose sleep was cut by the time already elapsed
C1_Witness ==
    \E i \in DOMAIN requests : requests[i].slept > 2 /\ requests[i].slept < 60

\* the base fields a record of d has keep their values in e
KeepsRecords(d, e) ==
    \A k \in Keys(d) :
        /\ HasItem(e, k[1], k[2])
        /\ \A f \in DOMAIN RecOf(d, k[1], k[2]) :
               /\ f \in DOMAIN RecOf(e, k[1], k[2])
               /\ RecOf(e, k[1], k[2])[f] = RecOf(d, k[1], k[2])[f]

\* C2: a request answered once with 429 and then with a response that is
\* neither 429 nor 401 is sent exactly twice with the same path and params;
\* the 429 surfaces nothing and loses nothing of the Aggregate, and the
\* caller gets the body of the second response.
C2_OneTransparentRetry ==
    [][Sent =>
        LET e == Last(requests')
        IN  /\ (e.status = 429 /\ e.attempt = 0) =>
                  /\ pc' = pc
                  /\ data' = data
                  /\ errors' = errors
                  /\ hist' = hist
                  /\ result' = result
                  /\ depth' = 1
            /\ depth = 1 =>
                  /\ Last(requests).status = 429
                  /\ e.ep = Last(requests).ep
                  /\ e.arg = Last(requests).arg
                  /\ e.key = Last(requests).key
                  /\ e.attempt = 1
            /\ (depth = 1 /\ e.status \in {200, 404}) =>
                  /\ depth' = 0
                  /\ hist'.fail.src \notin {"auth", "transport"}
                  /\ KeepsRecords(data, data')
                  /\ (e.ep = "page" /\ e.status = 200 /\ hist'.fail = NoFail) =>
                         data' = FoldPage(data, PageBody(Catalogs[cat], opts.wantlist, e.arg)
                                                    [IF opts.wantlist THEN "wants"
                                                                      ELSE "releases"]).data]_vars

\* page 2 was answered 429, then 200, and the fetch went on with the
\* records of page 1 and of page 2
C2_Witness ==
    \E i \in DOMAIN requests :
        /\ i + 1 \in DOMAIN requests
        /\ requests[i].ep = "page" /\ requests[i].arg = 2
        /\ requests[i].status = 429 /\ requests[i].attempt = 0
        /\ requests[i + 1].status = 200
        /\ hist.fail = NoFail
        /\ Cardinality(Keys(data)) = 3
        /\ pc = "done"

\* C3: a 401 makes get raise DiscogsException (the except clauses for it
\* run): the request is not sent again, nothing is sent after it, and no
\* body is read; also when the 401 answers a re-issue after a 429.
C3_UnauthorizedRaises ==
    [][Sent =>
        LET e == Last(requests')
        IN  /\ requests # <<>> => Last(requests).status # 401
            /\ e.status = 401 =>
                  /\ depth' = 0
                  /\ hist'.fail.src = "auth"
                  /\ hist'.fail.phase = e.ep
                  /\ data' = data
                  /\ errors' = Append(errors, IF e.ep = "identity" THEN InvalidKey
                                                                   ELSE FetchFailed)
                  /\ pc' \in {"exit", "save"}]_vars

\* a 401 answered the re-issue of a request first answered 429
C3_Witness ==
    /\ Len(requests) >= 2
    /\ Last(requests).status = 401
    /\ Last(requests).attempt = 1
    /\ requests[Len(requests) - 1].status = 429
    /\ pc \in {"exit", "done"}

\* C4: first write wins: a base field a record has keeps its value through
\* every later step (a release with the same key on any page included), and
\* a details or prices request answered well still adds its fields to it.
C4_FirstWriteWins ==
    [][/\ \A k \in Keys(data) :
              /\ HasItem(data', k[1], k[2])
              /\ \A f \in DOMAIN RecOf(data, k[1], k[2]) \cap BaseFields :
                     /\ f \in DOMAIN RecOf(data', k[1], k[2])
                     /\ RecOf(data', k[1], k[2])[f] = RecOf(data, k[1], k[2])[f]
       /\ (Sent /\ Last(requests').status = 200 /\ hist'.fail = NoFail) =>
              LET e == Last(requests')
              IN  /\ e.ep = "details" =>
                         DetailsFields \subseteq DOMAIN RecOf(data', e.key[1], e.key[2])
                  /\ e.ep = "prices" =>
                         "prices" \in DOMAIN RecOf(data', e.key[1], e.key[2])]_vars

\* instance 11 came on page 1 (release 1) and again on page 2 (release 4):
\* the record is that of release 1, and the details pass has added to it
C4_Witness ==
    /\ cat = 3
    /\ pc = "done"
    /\ hist.fail = NoFail
    /\ \E i \in DOMAIN requests :
           requests[i].ep = "page" /\ requests[i].arg = 2 /\ requests[i].status = 200
    /\ \E k \in Keys(data) :
           /\ k[2] = 11
           /\ RecOf(data, k[1], k[2]).id = 1
           /\ RecOf(data, k[1], k[2]).album = StrTitle(<<"d", "i", "o">>)
           /\ "uri" \in DOMAIN RecOf(data, k[1], k[2])

\* C5: an error other than a 401 while page p is fetched or processed ends
\* _get_data: the page request is the last request of the run, and the
\* Aggregate returned holds every record of pages 1..p-1 with its fields as
\* they were.
C5_PageErrorKeepsEarlierPages ==
    (hist.fail.phase = "page" /\ hist.fail.src # "auth") =>
        /\ Returned
        /\ result = <<Wrap(data)>>
        /\ Last(requests).ep = "page"
        /\ Last(requests).arg = hist.fail.n
        /\ Last(errors) = UnableToGet
        /\ \A k \in Keys(hist.pageStart) :
               /\ HasItem(data, k[1], k[2])
               /\ RecOf(data, k[1], k[2]) = RecOf(hist.pageStart, k[1], k[2])

\* page 2 failed while it was processed, after page 1 had given records
C5_Witness ==
    /\ hist.fail = [phase |-> "page", n |-> 2, src |-> "body"]
    /\ Keys(hist.pageStart) # {}
    /\ Keys(data) # Keys(hist.pageStart)
    /\ pc = "done"
    /\ saved = result

AuthFailedIn(phases) == hist.fail.src = "auth" /\ hist.fail.phase \in phases

PagesDone ==
    \/ pc \in {"details", "prices"}
    \/ Returned /\ hist.fail.phase \in {"none", "details", "prices"}
No429 == \A i \in DOMAIN requests : requests[i].status # 429
Endpoints == [i \in DOMAIN requests |-> requests[i].ep]
AllPagesSent == LET q == SelectSeq(requests, IsPage) IN [i \in DOMAIN q |-> q[i].arg]
IsPrefix(p, q) == Len(p) <= Len(q) /\ p = SubSeq(q, 1, Len(p))
\* what the metadata of the catalogue reports
ReportedPages == PageBody(Catalogs[cat], TRUE, 1).pages
ReportedCount == CollectionInfo(Catalogs[cat]).count
\* the metadata request of the collection was answered with a count
CountReported ==
    /\ Has(CollectionInfo(Catalogs[cat]), "count")
    /\ \E i \in DOMAIN requests : requests[i].ep = "meta" /\ requests[i].status = 200
CeilPages(c) == (c + API_LIMIT - 1) \div API_LIMIT

\* C7: the last page is never missed: for a wantlist whose metadata reports
\* P >= 1 pages, the page requests come after the metadata request and ask
\* for 1, 2, ... in this order, each once, never beyond P; when the page
\* loop ends without error they are exactly 1..P.
C7_WantlistLastPage ==
    (opts.wantlist /\ pc \notin {"identity", "meta"} /\ hist.fail.phase # "meta"
        /\ Has(PageBody(Catalogs[cat], TRUE, 1), "pagination") /\ ReportedPages >= 1) =>
        /\ IsPrefix(PagesAsked, UpTo(ReportedPages))
        /\ PagesDone => PagesAsked = UpTo(ReportedPages)
        /\ No429 => AllPagesSent = PagesAsked
        /\ \A i \in DOMAIN requests :
               requests[i].ep = "page" =>
                   \E j \in 1..(i - 1) : requests[j].ep = "meta" /\ requests[j].status = 200

\* a wantlist of three pages fetched to the end: pages 1, 2, 3 were asked
C7_Witness ==
    /\ opts.wantlist
    /\ ReportedPages = 3
    /\ pc = "done"
    /\ hist.fail = NoFail
    /\ PagesAsked = <<1, 2, 3>>

\* C8: for a collection whose metadata reports count = c the page requests
\* ask for 1, 2, ... in this order up to ceil(c/100), and are exactly those
\* when the page loop ends without error; with c = 1, one record, details
\* and prices, a run without error or 429 is the five requests identity,
\* metadata, page 1, details, prices.
C8_CollectionPageRequests ==
    (~opts.wantlist /\ pc \notin {"identity", "meta"} /\ hist.fail.phase # "meta"
        /\ CountReported) =>
        /\ IsPrefix(PagesAsked, UpTo(CeilPages(ReportedCount)))
        /\ PagesDone => PagesAsked = UpTo(CeilPages(ReportedCount))
        /\ No429 => AllPagesSent = PagesAsked
        /\ (ReportedCount = 1 /\ opts.details /\ opts.prices /\ pc = "done"
               /\ hist.fail = NoFail /\ No429) =>
               /\ Cardinality(Keys(data)) = 1
               /\ Endpoints = <<"identity", "meta", "page", "details", "prices">>
               /\ requests[3].arg = 1

\* the run over a collection of one album with details and prices
C8_Witness ==
    /\ ~opts.wantlist /\ opts.details /\ opts.prices
    /\ cat = 2
    /\ pc = "done"
    /\ hist.fail = NoFail
    /\ Len(requests) = 5
    /\ \E k \in Keys(data) : "prices" \in DOMAIN RecOf(data, k[1], k[2])

EpRank(ep) ==
    CASE ep = "identity" -> 0
      [] ep = "meta"     -> 1
      [] ep = "page"     -> 2
      [] ep = "details"  -> 3
      [] ep = "prices"   -> 4
DetailsAsked == LET q == SelectSeq(FirstIssues, IsDetails) IN [i \in DOMAIN q |-> q[i].key]
PricesAsked == LET q == SelectSeq(FirstIssues, IsPrices) IN [i \in DOMAIN q |-> q[i].key]
DetailsPassDone ==
    opts.details /\ (pc = "prices" \/ (Returned /\ hist.fail.phase \in {"none", "prices"}))
PricesPassDone == opts.prices /\ Returned /\ hist.fail = NoFail
OncePerRecord(q) ==
    /\ Len(q) = Cardinality(Keys(data))
    /\ Range(q) = Keys(data)

\* C10: page requests precede details requests, which precede prices
\* requests; an enrichment pass that has run to its end made one request
\* for each record of the Aggregate, and the prices pass visits the records
\* in the order of the details pass.
C10_PassOrdering ==
    /\ \A i, j \in DOMAIN requests :
           i < j => EpRank(requests[i].ep) <= EpRank(requests[j].ep)
    /\ DetailsPassDone => OncePerRecord(DetailsAsked)
    /\ PricesPassDone => OncePerRecord(PricesAsked)
    /\ (opts.details /\ opts.prices) => IsPrefix(PricesAsked, DetailsAsked)

\* both passes ran to their end over three records
C10_Witness ==
    /\ opts.details /\ opts.prices
    /\ pc = "done"
    /\ hist.fail = NoFail
    /\ Len(DetailsAsked) = 3
    /\ PricesAsked = DetailsAsked
    /\ ~No429

\* C11: an error other than a 401 in the details or the prices pass ends
\* _get_data with an Aggregate that holds exactly the records the page pass
\* built, every base field with the value it had when the page pass ended.
C11_EnrichmentErrorKeepsBase ==
    (hist.fail.phase \in {"details", "prices"} /\ hist.fail.src # "auth") =>
        /\ Returned
        /\ result = <<Wrap(data)>>
        /\ Last(errors) = UnableToGet
        /\ Keys(data) = Keys(hist.pagesEnd)
        /\ \A k \in Keys(hist.pagesEnd) :
               \A f \in DOMAIN RecOf(hist.pagesEnd, k[1], k[2]) :
                   /\ f \in DOMAIN RecOf(data, k[1], k[2])
                   /\ RecOf(data, k[1], k[2])[f] = RecOf(hist.pagesEnd, k[1], k[2])[f]

\* the prices pass failed on its second record, after the details pass
C11_Witness ==
    /\ hist.fail.phase = "prices" /\ hist.fail.src = "body" /\ hist.fail.n = 2
    /\ opts.details
    /\ Cardinality(Keys(hist.pagesEnd)) >= 2
    /\ pc = "done"
    /\ saved = <<Wrap(data)>>

NonAuthFailed ==
    /\ hist.fail.src \in {"transport", "body"}
    /\ hist.fail.phase \in {"meta", "page", "details", "prices"}

\* C12: after an error other than a 401 in the metadata, a page or an
\* enrichment request, get_collection / get_wantlist return the mapping of
\* 'username' and 'collection' / 'wantlist' with the Aggregate gathered so
\* far, and the step main takes next is the call of the writer with it.
C12_ErrorStillReturnsMapping ==
    [][/\ NonAuthFailed' =>
              /\ Returned'
              /\ result' = << [username  |-> username',
                               key       |-> IF opts.wantlist THEN "wantlist"
                                                              ELSE "collection",
                               aggregate |-> data'] >>
              /\ errors' # <<>>
       /\ (NonAuthFailed /\ pc = "save") => (pc' = "done" /\ saved' = result)]_vars

\* the metadata request failed and the writer got the empty Aggregate
C12_Witness ==
    /\ hist.fail.phase = "meta" /\ hist.fail.src = "transport"
    /\ pc = "done"
    /\ saved = <<Wrap(<<>>)>>
    /\ saved[1].username # <<>>

\* C13: a catalog, details or prices request is only made after the
\* identity probe was answered well; a 401 on the probe is the last request
\* of the run, which ends with exit status 1.
C13_IdentityFirst ==
    /\ \A i \in DOMAIN requests :
           requests[i].ep # "identity" =>
               \E j \in 1..(i - 1) :
                   requests[j].ep = "identity" /\ requests[j].status = 200
    /\ \A i \in DOMAIN requests :
           (requests[i].ep = "identity" /\ requests[i].status = 401) =>
               /\ i = Len(requests)
               /\ pc = "exit"
               /\ Last(errors) = InvalidKey
               /\ result = <<>> /\ saved = <<>>
    /\ pc = "exit" => Last(requests).ep = "identity" /\ Last(requests).status = 401

\* the probe was answered 401 at once
C13_Witness ==
    /\ pc = "exit"
    /\ Len(requests) = 1
    /\ requests[1].status = 401
    /\ errors = <<InvalidKey>>

NoLowestPrice(body) == ~Has(body, "lowest_price") \/ "lowest_price" \in body.null

\* C15: a details response whose lowest_price is absent or null gives the
\* record lowest_price "0.00", and the details pass goes on (to the next
\* record, or to what follows the pass after the last record).
C15_MissingPriceIsZero ==
    [][(Sent /\ Last(requests').ep = "details" /\ Last(requests').status = 200
            /\ NoLowestPrice(DetailsBody(Last(requests').arg))) =>
        LET e == Last(requests')
        IN  /\ hist'.fail = hist.fail
            /\ errors' = errors
            /\ "lowest_price" \in DOMAIN RecOf(data', e.key[1], e.key[2])
            /\ RecOf(data', e.key[1], e.key[2]).lowest_price = <<"0", ".", "0", "0">>
            /\ IF idx < Len(records) THEN pc' = "details" /\ idx' = idx + 1
                                     ELSE pc' = AfterDetails(records)]_vars

FieldsOf(k) == DOMAIN RecOf(data, k[1], k[2])

\* C16: without the details option no details request is made and no
\* record has a details field; without the prices option no prices request
\* is made and no record has 'prices'; each independently of the other.
C16_EnrichmentOnlyOnRequest ==
    /\ ~opts.details =>
           /\ \A i \in DOMAIN requests : requests[i].ep # "details"
           /\ \A k \in Keys(data) : FieldsOf(k) \cap DetailsFields = {}
    /\ ~opts.prices =>
           /\ \A i \in DOMAIN requests : requests[i].ep # "prices"
           /\ \A k \in Keys(data) : "prices" \notin FieldsOf(k)
    /\ (~opts.details /\ ~opts.prices) =>
           \A i \in DOMAIN requests : requests[i].ep \in {"identity", "meta", "page"}

\* with details only, a record got the details fields and no 'prices'
C16_Witness ==
    /\ opts.details /\ ~opts.prices
    /\ pc = "done"
    /\ hist.fail = NoFail
    /\ Keys(data) # {}
    /\ \A k \in Keys(data) : DetailsFields \subseteq FieldsOf(k) /\ "prices" \notin FieldsOf(k)
    /\ Last(requests).ep = "details"

\* C17: after a run without error with details and prices, every record
\* has exactly the nine base fields, the six details fields and 'prices',
\* is stored under its artist and its instance_id, and the result is the
\* mapping of 'username' and 'collection' / 'wantlist'.
C17_FullRecordShape ==
    (opts.details /\ opts.prices /\ Returned /\ hist.fail = NoFail) =>
        /\ \A k \in Keys(data) :
               /\ FieldsOf(k) = BaseFields \cup DetailsFields \cup {"prices"}
               /\ RecOf(data, k[1], k[2]).instance_id = k[2]
        /\ result = << [username  |-> username,
                        key       |-> IF opts.wantlist THEN "wantlist" ELSE "collection",
                        aggregate |-> data] >>

\* the collection of one album: VINYL - CD, lowest price 14.47, mint 24.44
C17_Witness ==
    /\ opts.details /\ opts.prices /\ ~opts.wantlist
    /\ cat = 2
    /\ pc = "done"
    /\ hist.fail = NoFail
    /\ \E k \in Keys(data) :
           /\ k[2] = 11
           /\ RecOf(data, k[1], k[2]).lowest_price = <<"1", "4", ".", "4", "7">>
           /\ RecOf(data, k[1], k[2]).prices[<<"m", "i", "n", "t">>]
                  = <<"2", "4", ".", "4", "4">>
    /\ saved = result

\* a step that runs the loop body over the list delivered
Folds == pc = "fold" /\ page' = page + 1
\* the list p with the release r put in again after position j
Repeated(p, j, r) == SubSeq(p, 1, j) \o <<r>> \o SubSeq(p, j + 1, Len(p))

\* C18: folding a list of releases a second time leaves the Aggregate as
\* the first fold left it, and so does a release that comes again later in
\* the list.
C18_FoldIdempotent ==
    [][Folds =>
        /\ idx >= 1 => data' = data
        /\ FoldPage(data', delivered).data = data'
        /\ \A i \in DOMAIN delivered : \A j \in i..Len(delivered) :
               FoldPage(data, Repeated(delivered, j, delivered[i])).data = data']_vars

\* the list R1, R2, R1 was folded twice in a row
C18_Witness ==
    /\ pc = "fold"
    /\ idx = 2
    /\ Len(delivered) = 3
    /\ delivered[1] = delivered[3]
    /\ Cardinality(Keys(data)) = 2
    /\ hist.pageStart = data

\* the key a raw entry is stored under: its instance_id, its id without one
EntryKey(rel) == IF "instance_id" \in rel.absent THEN rel.id ELSE rel.instance_id

\* C19: a raw entry without instance_id is stored under its release id and
\* its record has instance_id = id; an entry with an instance_id is stored
\* under that instance_id.
C19_InstanceIdDefault ==
    [][(Folds /\ FoldPage(data, delivered).ok) =>
        \A i \in DOMAIN delivered :
            \E k \in Keys(data') :
                /\ k[1] = ArtistKey(delivered[i])
                /\ k[2] = EntryKey(delivered[i])
                /\ RecOf(data', k[1], k[2]).instance_id = k[2]]_vars

\* the wantlist entry R2 (release 2, no instance_id) is stored under 2
C19_Witness ==
    /\ pc = "fold"
    /\ delivered = <<R2, R2>>
    /\ idx >= 1
    /\ \E k \in Keys(data) :
           /\ k[2] = 2
           /\ RecOf(data, k[1], k[2]).id = 2
           /\ RecOf(data, k[1], k[2]).instance_id = 2

\* the parts of a summary: the text between the separators " - "
RECURSIVE SplitDash(_)
SplitDash(s) ==
    IF s = <<>> THEN <<>>
    ELSE LET cuts == {p \in 1..(Len(s) - 2) : SubSeq(s, p, p + 2) = <<" ", "-", " ">>}
         IN  IF cuts = {} THEN <<s>>
             ELSE LET p == CHOOSE q \in cuts : \A r \in cuts : q <= r
                  IN  <<SubSeq(s, 1, p - 1)>> \o SplitDash(SubSeq(s, p + 3, Len(s)))
\* the name of a format entry as the summary shows it
ShownName(f) == StrUpper(Strip(f.name))
RECURSIVE QtyOf(_, _)
QtyOf(formats, name) ==
    IF formats = <<>> THEN 0
    ELSE QtyOf(Tail(formats), name)
             + (IF ShownName(Head(formats)) = name THEN ParseInt(Head(formats).qty) ELSE 0)
SummaryOK(formats, fmt, qty) ==
    LET names  == SplitDash(fmt)
        qs     == SplitDash(qty)
        firsts == {i \in DOMAIN formats :
                      \A j \in 1..(i - 1) : ShownName(formats[j]) # ShownName(formats[i])}
        Nth(n) == CHOOSE i \in firsts : Cardinality({j \in firsts : j < i}) = n - 1
    IN  /\ Len(names) = Cardinality(firsts)
        /\ Len(qs) = Len(names)
        /\ \A n \in DOMAIN names :
               /\ names[n] = ShownName(formats[Nth(n)])
               /\ IsNumeral(qs[n])
               /\ ParseInt(qs[n]) = QtyOf(formats, names[n])

\* C20: the format summary of a release names each distinct format once,
\* in order of first appearance; the quantity summary has as many entries,
\* the entry at the place of a name being the sum of the qty of the format
\* entries of that name.
C20_FormatQuantityAligned ==
    [][(Folds /\ FoldPage(data, delivered).ok) =>
        \A i \in DOMAIN delivered :
            LET rel == delivered[i]
                a   == ArtistKey(rel)
                k   == EntryKey(rel)
            IN  (/\ ~HasItem(data, a, k)
                 /\ \A j \in 1..(i - 1) :
                        <<ArtistKey(delivered[j]), EntryKey(delivered[j])>> # <<a, k>>) =>
                    SummaryOK(rel.formats, RecOf(data', a, k).format,
                              RecOf(data', a, k).quantity)]_vars

\* two 'Vinyl' entries with qty 1 and 2 gave format VINYL and quantity 3
C20_Witness ==
    /\ pc = "fold"
    /\ page >= 1
    /\ delivered = <<FormatRelease(<< [name |-> Vinyl, qty |-> <<"1">>],
                                      [name |-> Vinyl, qty |-> <<"2">>] >>)>>
    /\ \E k \in Keys(data) :
           /\ RecOf(data, k[1], k[2]).format = <<"V", "I", "N", "Y", "L">>
           /\ RecOf(data, k[1], k[2]).quantity = <<"3">>

\* what a credited name gives in the artist key
ShownArtist(name) ==
    CASE name = <<"a", "b", " ", "(", "2", ")">>                     -> <<"A", "b">>
      [] name = <<"a", "b">>                                         -> <<"A", "b">>
      [] name = <<" ", "A", "b", "(", "1", "2", ")", " ">>           -> <<"A", "b">>
      [] name = <<"a", "(", "b", ")">>                               -> <<"A", "(", "B", ")">>
      [] name = <<"(", "3", ")", "a", " ", "b", " ", "(", "2", ")">> -> <<"A", " ", "B">>

\* C21: the artist key is the credited names, each without its "(n)" and
\* trimmed, joined with " - " and title-cased; 'ab (2)' and 'ab' give the
\* same key.
C21_ArtistKeyNormalised ==
    [][(Folds /\ delivered \in ArtistPages) =>
        LET names == delivered[1].artists
        IN  Keys(data') =
                {<<Join(<<" ", "-", " ">>, [i \in DOMAIN names |-> ShownArtist(names[i])]),
                   20>>}]_vars

\* the credits 'ab (2)' and ' Ab(12) ' of one release gave the key 'Ab - Ab'
C21_Witness ==
    /\ pc = "fold"
    /\ page >= 1
    /\ delivered = <<ArtistRelease(<< <<"a", "b", " ", "(", "2", ")">>,
                                      <<" ", "A", "b", "(", "1", "2", ")", " ">> >>)>>
    /\ Keys(data) = {<< <<"A", "b", " ", "-", " ", "A", "b">>, 20 >>}

\* the key a grade of Discogs is stored under
ShownGrade(label) ==
    CASE label = GradeMint -> <<"m", "i", "n", "t">>
      [] label = GradeNearMint -> <<"n", "e", "a", "r", "_", "m", "i", "n", "t">>
      [] label = GradeVeryGoodPlus -> <<"v", "e", "r", "y", "_", "g", "o", "o", "d", "_", "p", "l", "u", "s">>
      [] label = GradeVeryGood -> <<"v", "e", "r", "y", "_", "g", "o", "o", "d">>
      [] label = GradeGoodPlus -> <<"g", "o", "o", "d", "_", "p", "l", "u", "s">>
      [] label = GradeGood -> <<"g", "o", "o", "d">>
      [] label = GradeFair -> <<"f", "a", "i", "r">>
      [] label = GradePoor -> <<"p", "o", "o", "r">>
\* a text that ends with "." and two digits
TwoDecimals(text) ==
    /\ Len(text) >= 4
    /\ text[Len(text) - 2] = "."
    /\ IsDigit(text[Len(text) - 1]) /\ IsDigit(text[Len(text)])
\* the amount such a text stands for, in hundredths
MoneyValue(text) == ParseInt(SelectSeq(text, IsDigit))

\* C22: the 'prices' mapping of a record has one entry per grade of the
\* response, under the grade without its parenthetical suffix, lower-cased,
\* spaces replaced by underscores, holding the value with two decimals.
C22_PriceGradesNormalised ==
    [][(Sent /\ Last(requests').ep = "prices" /\ Last(requests').status = 200
            /\ ~PricesBody(Last(requests').arg).malformed) =>
        LET e  == Last(requests')
            es == PricesBody(e.arg).entries
            pm == RecOf(data', e.key[1], e.key[2]).prices
        IN  /\ DOMAIN pm = {ShownGrade(es[i].label) : i \in DOMAIN es}
            /\ Cardinality(DOMAIN pm) = Len(es)
            /\ \A i \in DOMAIN es :
                   /\ TwoDecimals(pm[ShownGrade(es[i].label)])
                   /\ MoneyValue(pm[ShownGrade(es[i].label)]) = es[i].value]_vars

\* 'Near Mint (NM or M-)' with value 16.71 is stored as near_mint, "16.71"
C22_Witness ==
    \E k \in Keys(data) :
        /\ "prices" \in FieldsOf(k)
        /\ <<"n", "e", "a", "r", "_", "m", "i", "n", "t">>
               \in DOMAIN RecOf(data, k[1], k[2]).prices
        /\ RecOf(data, k[1], k[2]).prices[<<"n", "e", "a", "r", "_", "m", "i", "n", "t">>]
               = <<"1", "6", ".", "7", "1">>
        /\ RecOf(data, k[1], k[2]).prices[<<"v", "e", "r", "y", "_", "g", "o", "o", "d",
                                            "_", "p", "l", "u", "s">>]
               = <<"1", ",", "6", "7", "1", ".", "0", "0">>

\* the step in which the writer is run on the mapping handed over
WriterRan == pc = "done" /\ pc' # "done"
OneRowPerRecord(rows, d) ==
    /\ {<<rows[i].artist, rows[i].iid>> : i \in DOMAIN rows} = Keys(d)
    /\ Len(rows) = Cardinality(Keys(d))
RowsInOrder(rows, d) ==
    /\ \A i \in DOMAIN rows : rows[i].row = i /\ rows[i].cells[0] = rows[i].artist
    /\ \A i, j \in DOMAIN rows :
           i < j =>
               /\ ~StrLess(rows[j].artist, rows[i].artist)
               /\ rows[i].artist = rows[j].artist =>
                      LET items == d[ArtistAt(d, rows[i].artist)].items
                      IN  ItemAt(items, rows[i].iid) < ItemAt(items, rows[j].iid)

\* C23: the writer emits one row per (artist, instance_id) record of the
\* Aggregate, on the rows 1, 2, ..., artists in non-decreasing order and the
\* instance ids of one artist in insertion order, and leaves the Aggregate
\* as it was.
C23_OneRowPerRecord ==
    [][WriterRan =>
        /\ pc' = "closed"
        /\ OneRowPerRecord(sheet', saved[1].aggregate)
        /\ RowsInOrder(sheet', saved[1].aggregate)
        /\ data' = data /\ saved' = saved /\ result' = result]_vars

\* the writer raised on a record cut short by an error of the fetch: the
\* workbook is never closed
C23_Witness ==
    /\ pc = "keyerror"
    /\ \E k \in Keys(saved[1].aggregate) : "year" \notin FieldsOf(k)

\* what does hold: a workbook that was closed has its rows as C23 says
C23_RowsOfClosedWorkbook ==
    [][(WriterRan /\ pc' = "closed") =>
        /\ OneRowPerRecord(sheet', saved[1].aggregate)
        /\ RowsInOrder(sheet', saved[1].aggregate)
        /\ data' = data /\ saved' = saved /\ result' = result]_vars

\* C24: the throttle sleep lasts max(2, 60 - (now - last_block_time)) seconds,
\* now being the time of the throttle check; it is never shorter than 2
\* seconds and, the stored timestamp not being in the future, never longer
\* than 60.
C24_SleepDuration ==
    [][(Sent /\ remaining_queries < 2) =>
        LET elapsed == clock - api_last_block_time
            slept   == Last(requests').slept
        IN  /\ slept = (IF 60 - elapsed > 2 THEN 60 - elapsed ELSE 2)
            /\ clock' = clock + slept
            /\ slept >= 2
            /\ elapsed >= 0 => slept <= 60]_vars

\* one sleep held at the floor of 2 seconds (59 seconds had elapsed) and a
\* later one of 58 seconds (2 seconds had elapsed)
C24_Witness ==
    \E i, j \in DOMAIN requests :
        i < j /\ requests[i].slept = 2 /\ requests[j].slept = 58

\* C25: after a response the counter is the integer of its
\* X-Discogs-Ratelimit-Remaining header, 60 when the response has none, and
\* 0 after a 429 whatever the header; the counter starts at 60.
C25_CounterFollowsHeader ==
    [][/\ requests = <<>> => remaining_queries = 60
       /\ (Sent /\ Last(requests').status # 0) =>
              LET r == response'[1]
              IN  remaining_queries' =
                      (IF r.status = 429 THEN 0
                       ELSE IF ~r.header.present THEN 60
                       ELSE IF r.header.text = <<"1">> THEN 1
                       ELSE IF r.header.text = <<"4", "0">> THEN 40
                       ELSE -1)]_vars

\* a 429 left the counter at 0, so that the re-issue slept; the re-issue,
\* answered without the header, left the counter at 60
C25_Witness ==
    /\ Len(requests) >= 2
    /\ requests[Len(requests) - 1].status = 429
    /\ response = <<[raised |-> FALSE, status |-> 200, header |-> NoHeader]>>
    /\ remaining_queries = 60
    /\ \E i \in DOMAIN requests : requests[i].slept > 0

\* the answers to the metadata request that carry a body: the last one is
\* the one get_collection reads
MetaAnswers == SelectSeq(requests, LAMBDA e : e.ep = "meta" /\ e.status \in {200, 404})

\* C26: the page count get_collection gives to the page loop is
\* ceil(count / 100) + 1 for the count of the metadata response: 1 for a
\* count of 0 or a response without count, 2 for 1..100, 3 for 101..200.
C26_CollectionPageCount ==
    (~opts.wantlist /\ MetaAnswers # <<>>) =>
        LET info  == CollectionInfo(Catalogs[cat])
            given == Last(MetaAnswers).status = 200 /\ Has(info, "count")
            c     == IF given THEN info.count ELSE 0
        IN  /\ c >= 0
            /\ c = 0 => pages = 1
            /\ c \in 1..100 => pages = 2
            /\ c \in 101..200 => pages = 3
            /\ \E q \in 0..c : (q - 1) * 100 < c /\ c <= q * 100 /\ pages = q + 1

\* a collection of 101 releases was fetched with a page count of 3
C26_Witness ==
    /\ ~opts.wantlist /\ pc = "done" /\ hist.fail = NoFail
    /\ MetaAnswers # <<>> /\ Last(MetaAnswers).status = 200
    /\ CollectionInfo(Catalogs[cat]).count = 101
    /\ pages = 3

ArtistKeys(d) == {d[i].artist : i \in DOMAIN d}
InstanceKeys(d, a) == {k[2] : k \in {q \in Keys(d) : q[1] = a}}
SameKeys(d, e) ==
    /\ ArtistKeys(d) = ArtistKeys(e)
    /\ \A a \in ArtistKeys(d) : InstanceKeys(d, a) = InstanceKeys(e, a)

\* C27: the details and the prices pass create no key: every step of
\* theirs leaves the artist keys and the instance_id keys of each artist
\* as they were, so that they stay those the page pass ended with.
C27_EnrichmentCreatesNoKey ==
    [][/\ pc \in {"details", "prices"} => SameKeys(data, data')
       /\ PagesDone' => SameKeys(hist'.pagesEnd, data')]_vars

\* both passes ran over three records of two artists and wrote their fields
C27_Witness ==
    /\ opts.details /\ opts.prices /\ pc = "done" /\ hist.fail = NoFail
    /\ Cardinality(ArtistKeys(data)) = 2
    /\ Cardinality(Keys(data)) = 3
    /\ data # hist.pagesEnd
    /\ SameKeys(hist.pagesEnd, data)

\* a non-authentication error has ended the details pass of a run that was
\* asked for details and prices, and _get_data has returned
DetailsPassAborted ==
    /\ opts.details /\ opts.prices
    /\ hist.fail.phase = "details" /\ hist.fail.src \in {"transport", "body"}
    /\ Returned

\* C28: errors are caught at the boundary of each enrichment pass: after a
\* non-authentication error has aborted the details pass, the prices pass
\* still runs and makes its one request per record.
C28_PricesPassSurvivesDetailsError ==
    DetailsPassAborted => OncePerRecord(PricesAsked)

\* the details pass was aborted by a null lowest_price on its third record,
\* and the run ended without a prices request
C28_Witness ==
    /\ DetailsPassAborted
    /\ hist.fail.src = "body" /\ hist.fail.n = 3
    /\ Cardinality(Keys(data)) = 3
    /\ PricesAsked = <<>>
    /\ pc = "done"

\* C29: the re-issues of one request on consecutive 429 responses are
\* bounded by a fixed cap: however many 429 the server gives, some number of
\* re-issues is never exceeded.
C29_RetriesCapped ==
    \E cap \in 0..(MaxFlood - 1) :
        \A i \in DOMAIN requests : requests[i].attempt <= cap

\* the identity request was answered 429 MaxFlood times in a row and sent
\* again each time
C29_Witness ==
    /\ Len(requests) = MaxFlood + 1
    /\ \A i \in 1..MaxFlood :
           requests[i].ep = "identity" /\ requests[i].status = 429
    /\ Last(requests).ep = "identity" /\ Last(requests).attempt = MaxFlood

\* C30: the request that follows a 429 response (the re-issue) is preceded
\* by a throttle sleep of at least 2 seconds, which lies between the 429 and
\* the re-issue.
C30_ReissueSleepsFirst ==
    [][(Sent /\ requests # <<>> /\ Last(requests).status = 429) =>
        LET e == Last(requests')
        IN  /\ e.attempt = Last(requests).attempt + 1
            /\ e.slept >= 2
            /\ e.sent = clock + e.slept
            /\ clock >= Last(requests).sent
            /\ e.sent >= Last(requests).sent + 2]_vars

\* a page request was answered 429 with time passing before get ran again,
\* and the re-issue left after a sleep that began after that time
C30_Witness ==
    \E i \in DOMAIN requests :
        /\ i + 1 \in DOMAIN requests
        /\ requests[i].ep = "page" /\ requests[i].status = 429
        /\ requests[i + 1].attempt = requests[i].attempt + 1
        /\ requests[i + 1].slept >= 2
        /\ requests[i + 1].sent > requests[i].sent + requests[i + 1].slept

\* page n of the catalog is answered, with status 200, by an empty list
EmptyPage(n) ==
    LET c == Catalogs[cat]
    IN  /\ n \notin c.nolist
        /\ "pagination" \notin c.meta_absent
        /\ n \in DOMAIN c.lists => c.lists[n] = <<>>
AnsweredEmpty(e) == e.ep = "page" /\ e.status = 200 /\ EmptyPage(e.arg)
AbortedAt(e) ==
    /\ hist.fail.phase = "page" /\ hist.fail.n = e.arg /\ hist.fail.src = "body"
    /\ errors # <<>>

\* C31: a page whose list of releases is empty does not abort the fetch: no
\* error is raised on it and none is logged for it.
C31_EmptyPageHarmless ==
    \A i \in DOMAIN requests : AnsweredEmpty(requests[i]) => ~AbortedAt(requests[i])

\* the second page of a collection came back with 'releases': [], the fetch
\* ended there with an error logged, and page 3 was never asked for
C31_Witness ==
    /\ ~opts.wantlist /\ cat = 6 /\ pc = "done"
    /\ \E i \in DOMAIN requests : requests[i].arg = 2 /\ AnsweredEmpty(requests[i])
                                     /\ AbortedAt(requests[i])
    /\ errors = <<UnableToGet>>
    /\ PagesAsked = <<1, 2>>
    /\ Cardinality(Keys(data)) = 1

\* what does hold: an empty page of a wantlist ('wants': []) is harmless
C31_EmptyWantlistPageHarmless ==
    opts.wantlist =>
        \A i \in DOMAIN requests : AnsweredEmpty(requests[i]) => ~AbortedAt(requests[i])

\* the run of get_collection / get_wantlist did not get to its end: its last
\* request was answered 401 or by an exception of the transport, or a body
\* raised while it was read
EndedEarly ==
    \/ hist.fail # NoFail
    \/ requests # <<>> /\ Last(requests).status \in {0, 401}

\* C32: a result cut short by an error is never silent: the error-level
\* message is logged in the step that ends the fetch, before the mapping is
\* returned, one message per run; a run without error logs none.
C32_PartialResultIsLogged ==
    [][/\ (Returned' /\ ~Returned) =>
              /\ EndedEarly' <=> errors' # <<>>
              /\ EndedEarly' =>
                     /\ errors' = <<IF hist'.fail.src = "auth" THEN FetchFailed
                                                              ELSE UnableToGet>>
                     /\ result' = << [username  |-> username',
                                      key       |-> IF opts.wantlist THEN "wantlist"
                                                                     ELSE "collection",
                                      aggregate |-> data'] >>
       /\ Returned => errors' = errors]_vars

\* the transport raised on the second details request: the records of the
\* page pass were returned with the message logged
C32_Witness ==
    /\ pc = "done"
    /\ hist.fail = [phase |-> "details", n |-> 2, src |-> "transport"]
    /\ errors = <<UnableToGet>>
    /\ Cardinality(Keys(saved[1].aggregate)) >= 2

\* C33: a call of get entered with the counter at 2 or more does not sleep
\* and leaves the last-exhaustion timestamp as it is; the timestamp changes
\* only in a throttled call, to the time of the throttle check, which is
\* taken before the sleep.
C33_UnthrottledCallIsFree ==
    [][/\ (Sent /\ remaining_queries >= 2) =>
              /\ Last(requests').slept = 0
              /\ Last(requests').sent = clock
              /\ clock' = clock
              /\ api_last_block_time' = api_last_block_time
       /\ (Sent /\ remaining_queries < 2) =>
              /\ api_last_block_time' = clock
              /\ api_last_block_time' = Last(requests').sent - Last(requests').slept
       /\ api_last_block_time' # api_last_block_time =>
              Sent /\ remaining_queries < 2]_vars

\* a throttled call moved the timestamp to the time of its check, 59 seconds
\* after the start, and the call after it went out without a sleep
C33_Witness ==
    \E i \in DOMAIN requests :
        /\ i + 1 \in DOMAIN requests
        /\ requests[i].slept > 0
        /\ requests[i].sent - requests[i].slept = 159
        /\ api_last_block_time = 159
        /\ requests[i + 1].slept = 0

\* C34: every record of the Aggregate _get_data returns has the nine base
\* fields, also when an error ended the fetch in the middle of a page.
C34_RecordsHaveBaseFields ==
    Returned => \A k \in Keys(data) : BaseFields \subseteq FieldsOf(k)

\* the fetch was aborted on a release without 'year': its record was
\* returned with 'album' alone, and the writer raised on it
C34_Witness ==
    /\ pc = "keyerror"
    /\ hist.fail.phase = "page" /\ hist.fail.src = "body"
    /\ \E k \in Keys(saved[1].aggregate) : FieldsOf(k) = {"album"}
    /\ \E k \in Keys(saved[1].aggregate) : BaseFields \subseteq FieldsOf(k)

\* C35: a record of the Aggregate _get_data returns has the six details
\* fields or none of them, also when an error ended the details pass; a
\* record with a uri that is not empty has the fields the writer reads
\* with it.
C35_DetailsAllOrNone ==
    Returned =>
        \A k \in Keys(data) :
            /\ FieldsOf(k) \cap DetailsFields \in {{}, DetailsFields}
            /\ Truthy(RecOf(data, k[1], k[2]), "uri") =>
                   {"have", "want", "notes", "num_for_sale", "lowest_price"}
                       \subseteq FieldsOf(k)

\* the details pass was aborted by a null lowest_price: the record was
\* returned with its uri and without lowest_price, and the writer raised on
\* it after the rows of the records before it
C35_Witness ==
    /\ pc = "keyerror"
    /\ hist.fail.phase = "details" /\ hist.fail.src = "body"
    /\ \E k \in Keys(saved[1].aggregate) :
           FieldsOf(k) \cap DetailsFields = DetailsFields \ {"lowest_price"}
    /\ Len(sheet) >= 2
    /\ 10 \in DOMAIN Last(sheet).cells /\ 11 \notin DOMAIN Last(sheet).cells

(***************************************************************************)
(* The fetch as a function of the answers alone: get_collection /          *)
(* get_wantlist run against a client that neither throttles nor retries,   *)
(* given the status of each answer (0: the transport raised).              *)
(***************************************************************************)
RefStart ==
    [pc |-> "meta", data |-> <<>>, pages |-> 0, page |-> 0, records |-> <<>>, idx |-> 0]
RefReturn(st, d) == [st EXCEPT !.pc = "save", !.data = d]
RefEndOfPages(st, d) ==
    LET recs == IF opts.details \/ opts.prices THEN Records(d) ELSE <<>>
        next == IF opts.details /\ recs # <<>> THEN "details"
                ELSE IF opts.prices /\ recs # <<>> THEN "prices"
                ELSE "save"
    IN  [st EXCEPT !.pc = next, !.data = d, !.records = recs,
                   !.idx = IF next = "save" THEN 0 ELSE 1]
RefEnter(st, n) ==
    IF n >= 2 THEN [st EXCEPT !.pc = "page", !.pages = n, !.page = 1]
    ELSE RefEndOfPages([st EXCEPT !.pages = n], <<>>)
RefMeta(st, status) ==
    IF opts.wantlist
    THEN LET info == IF status = 200 THEN PageBody(Catalogs[cat], TRUE, 1) ELSE ErrorPage
         IN  IF Has(info, "pagination") THEN RefEnter(st, info.pages + 1)
             ELSE RefReturn(st, <<>>)
    ELSE LET info == IF status = 200 THEN CollectionInfo(Catalogs[cat]) ELSE ErrorInfo
         IN  RefEnter(st, IF Has(info, "count") THEN CeilPages(info.count) + 1 ELSE 1)
RefPage(st, status) ==
    LET content == IF status = 200 THEN PageBody(Catalogs[cat], opts.wantlist, st.page)
                   ELSE ErrorPage
        list    == ReleasesOf(content)
        folded  == FoldPage(st.data, list.items)
    IN  IF ~list.iterable THEN RefReturn(st, st.data)
        ELSE IF ~folded.ok THEN RefReturn(st, folded.data)
        ELSE IF st.page + 1 < st.pages
        THEN [st EXCEPT !.data = folded.data, !.page = st.page + 1]
        ELSE RefEndOfPages(st, folded.data)
RefDetails(st, status) ==
    LET r      == st.records[st.idx]
        folded == FoldDetails(st.data, r[1], r[2],
                              IF status = 200 THEN DetailsBody(r[3]) ELSE ErrorDetails)
    IN  IF ~folded.ok THEN RefReturn(st, folded.data)
        ELSE IF st.idx < Len(st.records)
        THEN [st EXCEPT !.data = folded.data, !.idx = st.idx + 1]
        ELSE IF opts.prices THEN [st EXCEPT !.data = folded.data, !.pc = "prices", !.idx = 1]
        ELSE [st EXCEPT !.data = folded.data, !.pc = "save", !.idx = 0]
RefPrices(st, status) ==
    LET r      == st.records[st.idx]
        folded == FoldPrices(st.data, r[1], r[2],
                             IF status = 200 THEN PricesBody(r[3]) ELSE ErrorPrices)
    IN  IF ~folded.ok THEN RefReturn(st, folded.data)
        ELSE IF st.idx < Len(st.records)
        THEN [st EXCEPT !.data = folded.data, !.idx = st.idx + 1]
        ELSE [st EXCEPT !.data = folded.data, !.pc = "save", !.idx = 0]
RefStep(st, status) ==
    IF status \in {0, 401} THEN RefReturn(st, st.data)
    ELSE CASE st.pc = "meta"    -> RefMeta(st, status)
           [] st.pc = "page"    -> RefPage(st, status)
           [] st.pc = "details" -> RefDetails(st, status)
           [] st.pc = "prices"  -> RefPrices(st, status)
           [] OTHER             -> st
RECURSIVE RefRun(_, _)
RefRun(st, statuses) ==
    IF statuses = <<>> THEN st ELSE RefRun(RefStep(st, Head(statuses)), Tail(statuses))

\* the answers of the run that are not a 429, after the identity probe
Answers ==
    LET q == SelectSeq(requests, LAMBDA e : e.ep # "identity" /\ e.status # 429)
    IN  [i \in DOMAIN q |-> q[i].status]

C37_ReissueWaitsFullWindow ==
    [][(Sent /\ requests # <<>> /\ Last(requests).status = 429) =>
           Last(requests').sent >= Last(requests).sent + 60]_vars

\* a request sent 59 seconds after the start was answered 429 and was sent
\* again 2 seconds later
C37_Witness ==
    \E i \in DOMAIN requests :
        /\ i + 1 \in DOMAIN requests
        /\ requests[i].status = 429 /\ requests[i].sent = 159
        /\ requests[i + 1].attempt = requests[i].attempt + 1
        /\ requests[i + 1].slept = 2
        /\ requests[i + 1].sent = 161

\* the cells of the columns Mint .. Good of a row hold the values of prices
PriceCells(row, prices) ==
    \A i \in DOMAIN PriceColumns :
        /\ PriceColumns[i][1] \in DOMAIN row.cells
        /\ row.cells[PriceColumns[i][1]] = prices[PriceColumns[i][2]]

\* C38: for a record with 'prices' and without 'uri' (prices asked for
\* without details) the writer writes the six price-grade columns of the
\* row from the 'prices' mapping.
C38_PricesWrittenWithoutDetails ==
    pc = "closed" =>
        \A i \in DOMAIN sheet :
            LET rec == RecOf(saved[1].aggregate, sheet[i].artist, sheet[i].iid)
            IN  ("prices" \in DOMAIN rec /\ "uri" \notin DOMAIN rec) =>
                    PriceCells(sheet[i], rec.prices)

\* prices were fetched without details for three records; the workbook was
\* closed with rows that have the base columns and no price column
C38_Witness ==
    /\ pc = "closed" /\ opts.prices /\ ~opts.details /\ hist.fail = NoFail
    /\ Len(sheet) = 3
    /\ \A i \in DOMAIN sheet :
           LET rec == RecOf(saved[1].aggregate, sheet[i].artist, sheet[i].iid)
           IN  /\ DOMAIN rec.prices # {}
               /\ DOMAIN sheet[i].cells = 0..6

\* what does hold: the price columns are written for a record that also
\* has a uri that is not empty
C38_PricesWrittenWithUri ==
    pc = "closed" =>
        \A i \in DOMAIN sheet :
            LET rec == RecOf(saved[1].aggregate, sheet[i].artist, sheet[i].iid)
            IN  ("prices" \in DOMAIN rec /\ Truthy(rec, "uri")) =>
                    PriceCells(sheet[i], rec.prices)

\* the command line was accepted by the parser and gives a token
AcceptedWithToken == options # <<>> /\ options[1].token # "None"

\* C39: for a command line accepted with a token, main builds the client
\* with the parsed token and goes on to the fetch chosen by --wantlist
\* (get_wantlist and save_wantlist, or get_collection and save_collection).
C39_MainUsesParsedToken ==
    (AcceptedWithToken /\ pc # "main") =>
        /\ pc = "identity"
        /\ calls = << [fn |-> "Discogs", token |-> options[1].token,
                       currency |-> options[1].currency] >>
        /\ opts = [wantlist |-> argv.wantlist, details |-> argv.details,
                   prices |-> argv.prices]

\* `--token dummy --wantlist` was parsed, and main ended on reading the key
\* 'apikey', which the parsed options do not have, before any call
C39_Witness ==
    /\ pc = "crash"
    /\ AcceptedWithToken
    /\ options[1].token = "dummy" /\ options[1].wantlist
    /\ options[1].file = DEFAULT_FILE_WANTLIST
    /\ "apikey" \notin DOMAIN options[1]
    /\ calls = <<>>

====
